---- MODULE Spec2Model ----
(***************************************************************************)
(* Simple-winget-repository: the upstream synchronisation engine.          *)
(*                                                                         *)
(* The model follows one import run of CachingService.import_package       *)
(* (src/app/services/caching.py) against the JSON repository index         *)
(* (src/app/storage/json_db_manager.py).  Every await of the run is a      *)
(* step of the state machine; what the upstream answers at a step is an    *)
(* input chosen with \E at that step.                                      *)
(*                                                                         *)
(* Representation of values:                                               *)
(*   - an absent / None / empty string is "", an absent or empty list is   *)
(*     <<>> (the code tests all of them with `if x` / `x or default`);     *)
(*   - a hash is a sequence of characters, so that lower() is computed;    *)
(*   - a version string "1.10" is the sequence of its segments <<1, 10>>.  *)
(***************************************************************************)
EXTENDS Integers, Sequences, FiniteSets, TLC

\* ------------------------------------------------------------------------
\* Bounds of the model
\* ------------------------------------------------------------------------

\* longest upstream version index (number of vD entries) that is explored
MaxVersions == 2

\* ------------------------------------------------------------------------
\* Strings and hashes
\* ------------------------------------------------------------------------

\* str.lower() on the strings the model uses
LowerStr(s) ==
    CASE s = "X64" -> "x64"
      [] s = "EXE" -> "exe"
      [] s = "Machine" -> "machine"
      [] OTHER -> s

LowerChar(c) ==
    CASE c = "A" -> "a"
      [] c = "B" -> "b"
      [] c = "C" -> "c"
      [] c = "D" -> "d"
      [] OTHER -> c

\* str.lower() on a hash, character by character
LowerHash(h) == [i \in DOMAIN h |-> LowerChar(h[i])]

\* hexdigest() values the upstream bodies can have (hexdigest is lower case)
Digests == { <<"a", "b">>, <<"c", "d">> }

SeqToSet(s) == { s[i] : i \in DOMAIN s }

\* [x.lower() for x in lst]
LowerList(lst) == { LowerStr(lst[i]) : i \in DOMAIN lst }

\* ------------------------------------------------------------------------
\* Versions
\* ------------------------------------------------------------------------

\* code point of a character
CharOrd(c) ==
    CASE c = "\n" -> 10
      [] c = "." -> 46
      [] c = "0" -> 48
      [] c = "1" -> 49
      [] c = "2" -> 50
      [] c = "9" -> 57
      [] c = "A" -> 65
      [] c = "a" -> 97
      [] c = "b" -> 98
      [] OTHER -> 122

\* s < t on Python strings
RECURSIVE StrLess(_, _)
StrLess(s, t) ==
    IF t = <<>> THEN FALSE
    ELSE IF s = <<>> THEN TRUE
    ELSE IF Head(s) = Head(t) THEN StrLess(Tail(s), Tail(t))
    ELSE CharOrd(Head(s)) < CharOrd(Head(t))

\* version_key: one (0, int) pair per numeric segment
version_key(v) == [i \in DOMAIN v |-> <<0, v[i]>>]

\* Python's order on two segment keys: (0, int) before (1, str), integers by
\* value, strings by code point
PairLess(a, b) ==
    IF a[1] # b[1] THEN a[1] < b[1]
    ELSE IF a[1] = 0 THEN a[2] < b[2]
    ELSE StrLess(a[2], b[2])

\* Python's tuple order on two version keys
RECURSIVE KeyLess(_, _)
KeyLess(a, b) ==
    IF a = <<>> THEN b # <<>>
    ELSE IF b = <<>> THEN FALSE
    ELSE IF Head(a) = Head(b) THEN KeyLess(Tail(a), Tail(b))
    ELSE PairLess(Head(a), Head(b))

\* list.sort(key=version_key(x["version"]), reverse=True): stable, descending
RECURSIVE InsertDesc(_, _)
InsertDesc(x, sorted) ==
    IF sorted = <<>> THEN <<x>>
    ELSE IF KeyLess(version_key(Head(sorted).version), version_key(x.version))
         THEN <<x>> \o sorted
         ELSE <<Head(sorted)>> \o InsertDesc(x, Tail(sorted))

\* the alternative to SortByVersionDesc that leaves the list as it is
KeepListOrder(lst) == lst

RECURSIVE SortByVersionDesc(_)
SortByVersionDesc(lst) ==
    IF lst = <<>> THEN <<>>
    ELSE InsertDesc(lst[Len(lst)], SortByVersionDesc(SubSeq(lst, 1, Len(lst) - 1)))

\* a version_filter is "" (none) or the glob "<prefix>.*", kept as its
\* prefix segments; fnmatch.fnmatch(version_str, version_filter)
NoFilter == [glob |-> FALSE, prefix |-> <<>>]

fnmatch(v, pat) ==
    /\ Len(v) > Len(pat.prefix)
    /\ SubSeq(v, 1, Len(pat.prefix)) = pat.prefix

\* ------------------------------------------------------------------------
\* Upstream data the run can meet
\* ------------------------------------------------------------------------

PackageIds == {"p", "q"}

\* vD entries the upstream version index of the package can list, in the
\* order of the document (which is not sorted): version, relative path,
\* manifest hash
UpstreamIndex ==
    << [version |-> <<1, 9>>,  relative_path |-> "m/1.9",  manifest_hash |-> <<>>],
       [version |-> <<2, 0>>,  relative_path |-> "m/2.0",  manifest_hash |-> <<"a", "b">>],
       [version |-> <<1, 10>>, relative_path |-> "m/1.10", manifest_hash |-> <<"A", "B">>] >>

\* the subsequence of s at the positions in keep
RECURSIVE Pick(_, _, _)
Pick(s, keep, i) ==
    IF i > Len(s) THEN <<>>
    ELSE IF i \in keep THEN <<s[i]>> \o Pick(s, keep, i + 1)
    ELSE Pick(s, keep, i + 1)

\* the version lists a decoded index document can hold
IndexDocs ==
    { Pick(UpstreamIndex, keep, 1) :
        keep \in { k \in SUBSET DOMAIN UpstreamIndex : Cardinality(k) <= MaxVersions } }

\* installer entries of upstream manifests
WithSha == [Architecture |-> "x64", Scope |-> "", InstallerType |-> "exe",
            InstallerUrl |-> "u1", InstallerSha256 |-> <<"A", "B">>]

WithoutSha == [Architecture |-> "x86", Scope |-> "Machine", InstallerType |-> "",
               InstallerUrl |-> "u2", InstallerSha256 |-> <<>>]

WrongSha == [Architecture |-> "x64", Scope |-> "user", InstallerType |-> "EXE",
             InstallerUrl |-> "u3", InstallerSha256 |-> <<"a", "b">>]

WithoutUrl == [Architecture |-> "x64", Scope |-> "user", InstallerType |-> "msi",
               InstallerUrl |-> "", InstallerSha256 |-> <<>>]

\* the Installers lists of upstream manifests
InstallerLists ==
    { <<>>, <<WithSha>>, <<WithoutSha>>, <<WithoutUrl>>, <<WrongSha, WithSha>> }

\* the SHA-256 of the body an InstallerUrl serves
UrlDigest(url) == IF url = "u3" THEN <<"c", "d">> ELSE <<"a", "b">>

\* what yaml.safe_load makes of a manifest body: it fails ("bad_yaml"),
\* yields something that is no mapping ("not_mapping": None, a string, a
\* list), or yields a single-version manifest mapping
ManifestDocs ==
    { [kind |-> k, digest |-> d, Scope |-> "", InstallerType |-> "", Installers |-> <<>>] :
        k \in {"bad_yaml", "not_mapping"}, d \in Digests }
    \cup
    { [kind |-> "mapping", digest |-> d, Scope |-> "", InstallerType |-> "msi", Installers |-> i] :
        d \in Digests, i \in InstallerLists }
    \cup
    { [kind |-> "mapping", digest |-> d, Scope |-> "", InstallerType |-> "", Installers |-> <<WithoutSha>>] :
        d \in Digests }

\* ------------------------------------------------------------------------
\* Repository index records
\* ------------------------------------------------------------------------

NoCacheSettings == [present |-> FALSE]

NoPackage == [exists |-> FALSE]

\* CacheSettings(...)
CacheSettings(architectures, scopes, installer_types, version_mode, version_filter, auto_update) ==
    [present |-> TRUE,
     architectures |-> architectures,
     scopes |-> scopes,
     installer_types |-> installer_types,
     version_mode |-> version_mode,
     version_filter |-> version_filter,
     auto_update |-> auto_update]


\* PackageCommonMetadata, with the fields the import run sets
PackageCommonMetadata(package_identifier, cached, cache_settings) ==
    [package_identifier |-> package_identifier,
     cached |-> cached,
     cache_settings |-> cache_settings]

\* JsonDatabaseManager.get_package
get_package(d, package_id) == d[package_id]

\* faulty variant: every save starts the entry afresh
save_package_as_new(d, package) ==
    [d EXCEPT ![package.package_identifier] =
        [exists |-> TRUE,
         package |-> package,
         versions |-> <<>>,
         storage_path |-> <<IF package.cached THEN "cached" ELSE "owned",
                            package.package_identifier>>]]

\* JsonDatabaseManager.save_package: an existing entry keeps its storage
\* path and its versions and gets the new record; a new entry starts empty
save_package(d, package) ==
    LET existing_pkg == get_package(d, package.package_identifier)
        subdir == IF package.cached THEN "cached" ELSE "owned"
    IN  [d EXCEPT ![package.package_identifier] =
            IF existing_pkg.exists
            THEN [existing_pkg EXCEPT !.package = package]
            ELSE [exists |-> TRUE,
                  package |-> package,
                  versions |-> <<>>,
                  storage_path |-> <<subdir, package.package_identifier>>]]

\* faulty variant: the versions list is rebuilt from the new record alone
VersionsReplacedByAdd(versions, installer) == <<installer>>

\* pkg_index.versions.append(installer)
IndexVersionsAfterAdd(versions, installer) == Append(versions, installer)

\* JsonDatabaseManager.add_installer, for a package that is in the index:
\* the uuid4 drawn is used when the record carries no GUID (0 stands for
\* None), the folder is <version>-<arch>-<scope>-<guid>, and the record is
\* appended to the package's versions
add_installer(d, package_id, installer, uuid4) ==
    LET pkg_index == get_package(d, package_id)
        installer_guid == IF installer.installer_guid = 0 THEN uuid4
                          ELSE installer.installer_guid
        scope_part == IF installer.scope # "" THEN installer.scope ELSE "user"
        folder_name == <<installer.version, installer.architecture, scope_part,
                         installer_guid>>
        stored == [installer EXCEPT !.installer_guid = installer_guid,
                                    !.storage_path = <<pkg_index.storage_path, folder_name>>]
    IN  [d EXCEPT ![package_id].versions = IndexVersionsAfterAdd(pkg_index.versions, stored)]

\* ------------------------------------------------------------------------
\* Manifest interpretation
\* ------------------------------------------------------------------------

\* the alternative to Or2 without the fallback
FirstOnly(a, b) == a

\* a or b on strings
Or2(a, b) == IF a # "" THEN a ELSE b

\* the hash test of _download_manifest_with_text and _download_installer:
\* TRUE when an expected hash is supplied and differs, case-insensitively
HashRejected(actual_hash, expected_hash) ==
    /\ expected_hash # <<>>
    /\ LowerHash(actual_hash) # LowerHash(expected_hash)

\* one installer of a manifest against the three filters
PassesFilters(manifest, installer, architecture, scope, installer_types) ==
    LET version_scope == LowerStr(Or2(manifest.Scope, "user"))
        version_installer_type == LowerStr(manifest.InstallerType)
        inst_arch == LowerStr(installer.Architecture)
        inst_scope == LowerStr(Or2(installer.Scope, Or2(version_scope, "user")))
        inst_type == LowerStr(Or2(installer.InstallerType, version_installer_type))
    IN  /\ architecture # <<>> => inst_arch \in LowerList(architecture)
        /\ scope # <<>> => inst_scope \in LowerList(scope)
        /\ installer_types # <<>> => inst_type \in LowerList(installer_types)

\* installer_info of one installer, as the entry of all_version_data
VersionData(entry, manifest, installer) ==
    [version |-> entry.version,
     architecture |-> installer.Architecture,
     scope |-> Or2(installer.Scope, Or2(manifest.Scope, "user")),
     installer_type |-> Or2(installer.InstallerType, manifest.InstallerType),
     url |-> installer.InstallerUrl,
     sha256 |-> installer.InstallerSha256]

\* _extract_installer_info on a single-version manifest mapping, joined with
\* the loop that turns each installer into an all_version_data entry
RECURSIVE extract_installer_info(_, _, _, _, _, _)
extract_installer_info(entry, manifest, installers, architecture, scope, installer_types) ==
    IF installers = <<>> THEN <<>>
    ELSE LET installer == Head(installers)
             rest == extract_installer_info(entry, manifest, Tail(installers),
                                            architecture, scope, installer_types)
         IN  IF /\ PassesFilters(manifest, installer, architecture, scope, installer_types)
                /\ installer.InstallerUrl # ""
             THEN <<VersionData(entry, manifest, installer)>> \o rest
             ELSE rest

GroupKey(vd) == <<vd.architecture, vd.scope, vd.installer_type>>

\* the candidates _select_latest_version_data keeps for grouping
RECURSIVE TypeFiltered(_, _)
TypeFiltered(version_data, installer_types) ==
    IF version_data = <<>> THEN <<>>
    ELSE LET vd == Head(version_data)
             rest == TypeFiltered(Tail(version_data), installer_types)
         IN  IF installer_types # <<>> /\ vd.installer_type \notin SeqToSet(installer_types)
             THEN rest
             ELSE <<vd>> \o rest

\* the members of one group, in list order
RECURSIVE GroupOf(_, _)
GroupOf(version_data, key) ==
    IF version_data = <<>> THEN <<>>
    ELSE IF GroupKey(Head(version_data)) = key
         THEN <<Head(version_data)>> \o GroupOf(Tail(version_data), key)
         ELSE GroupOf(Tail(version_data), key)

\* the group keys in order of first appearance (dict insertion order)
RECURSIVE GroupKeys(_, _)
GroupKeys(version_data, seen) ==
    IF version_data = <<>> THEN <<>>
    ELSE LET k == GroupKey(Head(version_data))
         IN  IF k \in seen
             THEN GroupKeys(Tail(version_data), seen)
             ELSE <<k>> \o GroupKeys(Tail(version_data), seen \cup {k})

\* _select_latest_version_data
select_latest_version_data(version_data, installer_types) ==
    LET kept == TypeFiltered(version_data, installer_types)
        keys == GroupKeys(kept, {})
    IN  [i \in DOMAIN keys |-> SortByVersionDesc(GroupOf(kept, keys[i]))[1]]

\* the alternative to TruncateForMode that keeps every entry
KeepEveryVersion(version_list, version_mode) == version_list

\* version_list after the version_mode == "latest" truncation
TruncateForMode(version_list, version_mode) ==
    IF version_mode = "latest"
    THEN LET sorted == SortByVersionDesc(version_list)
         IN  IF sorted = <<>> THEN <<>> ELSE <<sorted[1]>>
    ELSE version_list


\* ------------------------------------------------------------------------
\* The import run
\* ------------------------------------------------------------------------

\* arguments of import_package that are explored
ImportArgs ==
    [package_id : {"p"},
     architectures : { <<>>, <<"X64">> },
     scopes : { <<>> },
     installer_types : { <<>>, <<"exe">> },
     version_mode : {"latest", "all"},
     version_filter : { NoFilter, [glob |-> TRUE, prefix |-> <<1>>] },
     track_cache : BOOLEAN]

\* a stored VersionMetadata record
StoredInstaller(version, architecture, scope, installer_type, sha, guid, pkg_path) ==
    [version |-> version,
     architecture |-> architecture,
     scope |-> scope,
     installer_type |-> installer_type,
     installer_sha256 |-> sha,
     installer_guid |-> guid,
     storage_path |-> <<pkg_path, <<version, architecture, scope, guid>> >>]

\* package q is a bystander that no run imports
BystanderPackage ==
    [exists |-> TRUE,
     package |-> PackageCommonMetadata("q", FALSE, NoCacheSettings),
     versions |-> << StoredInstaller(<<1, 0>>, "x64", "user", "exe", <<"a", "b">>, 100, <<"owned", "q">>) >>,
     storage_path |-> <<"owned", "q">>]

\* package p as an earlier run left it, with auto-update switched off since
PreviouslyCachedPackage ==
    [exists |-> TRUE,
     package |-> PackageCommonMetadata("p", TRUE,
                    CacheSettings(<<>>, <<>>, <<>>, "latest", NoFilter, FALSE)),
     versions |-> << StoredInstaller(<<1, 10>>, "x64", "user", "exe", <<"a", "b">>, 101, <<"cached", "p">>) >>,
     storage_path |-> <<"cached", "p">>]

\* RepositoryIndex states a run can start from
InitialDbs ==
    { [id \in PackageIds |-> IF id = "q" THEN BystanderPackage ELSE p] :
        p \in { NoPackage, PreviouslyCachedPackage } }

NoDoc == [kind |-> "none"]

NoDownload == [status |-> "none", hash |-> <<>>]

\* no request has read the package during the run
NoObservation == [taken |-> FALSE]

\* who starts import runs: the daily update job and the admin save handler
Starters == {"daily", "admin"}

IdleRun == [pc |-> "idle", package_id |-> "", todo |-> 0, added |-> 0]

NoRuns == [r \in Starters |-> IdleRun]

\* RepositoryIndex() with no package
EmptyIndex == <<>>

NoCall == [op |-> "none"]

VARIABLES
    db,                 \* JsonDatabaseManager._repository_index.packages
    next_guid,          \* the next uuid4 add_installer draws
    pc,                 \* where the run is
    args,               \* the arguments of the run
    version_list,       \* index entries the version loop has not handled yet
    manifest_doc,       \* the manifest body being fetched
    all_version_data,   \* candidates extracted so far
    version_data_list,  \* the installers selected for download
    idx,                \* position of the download loop in version_data_list
    target_path,        \* the temporary installer file: none, partial, complete
    download,           \* what _download_installer returned or raised
    imported_versions,  \* results of the download loop
    errors,             \* error list of the download loop
    outcome,            \* how the run ended: a result or the exception raised
    db0,                \* the repository index when the run started
    loop_versions,      \* the version list the version loop was started with
    manifest_gets,      \* versions whose manifest was requested, in order
    manifest_failures,  \* versions the version loop skipped after an exception
    parse_log,          \* manifests handed to yaml.safe_load
    attempts,           \* calls of _download_installer, by position
    calls,              \* catalog lookups, version index fetches and downloads so far
    observed,           \* what a request served during the run read of the package
    runs,               \* the import runs of the daily job and of the admin handler
    index,              \* the RepositoryIndex the search and manifest endpoints read
    call                \* the last request the read path answered, with its answer

vars == <<db, next_guid, pc, args, version_list, manifest_doc, all_version_data,
          version_data_list, idx, target_path, download, imported_versions, errors,
          outcome, db0, loop_versions, manifest_gets, manifest_failures, parse_log,
          attempts, calls, observed, runs, index, call>>

run_vars == <<args, version_list, manifest_doc, all_version_data, version_data_list,
              idx, target_path, download, imported_versions, errors, loop_versions>>

log_vars == <<manifest_gets, manifest_failures, parse_log, attempts, calls>>

\* the state of the writers of other runs and of the read path
other_vars == <<runs, index, call>>

Init ==
    /\ db \in InitialDbs
    /\ next_guid = 1
    /\ pc = "idle"
    /\ args \in ImportArgs
    /\ version_list = <<>>
    /\ manifest_doc = NoDoc
    /\ all_version_data = <<>>
    /\ version_data_list = <<>>
    /\ idx = 1
    /\ target_path = "none"
    /\ download = NoDownload
    /\ imported_versions = <<>>
    /\ errors = <<>>
    /\ outcome = "none"
    /\ db0 = db
    /\ loop_versions = <<>>
    /\ manifest_gets = <<>>
    /\ manifest_failures = <<>>
    /\ parse_log = <<>>
    /\ attempts = <<>>
    /\ calls = [catalog |-> 0, index |-> 0, catalog_answer |-> "", index_answer |-> "",
               index_doc |-> <<>>, downloads |-> <<>>]
    /\ observed = NoObservation
    /\ runs = NoRuns
    /\ index = EmptyIndex
    /\ call = NoCall

\* the run ends by raising `exception`
Raise(exception) ==
    /\ pc' = "done"
    /\ outcome' = exception

\* import_package, up to the catalog lookup: the index database file must
\* exist and find_package_by_id must find the package
CatalogAnswers == {"no_index_db", "missing", "no_hash_prefix", "found"}

ResolvePackage ==
    /\ pc = "idle"
    /\ \E answer \in CatalogAnswers :
        /\ calls' = [calls EXCEPT !.catalog = IF answer = "no_index_db" THEN @ ELSE @ + 1,
                                  !.catalog_answer = answer]
        /\ CASE answer = "no_index_db" -> Raise("IndexNotFound")
             [] answer = "missing" -> Raise("PackageNotFound")
             [] answer = "no_hash_prefix" -> Raise("MissingHashPrefix")
             [] OTHER -> pc' = "load_index" /\ UNCHANGED outcome
    /\ UNCHANGED <<db, next_guid, db0, run_vars, manifest_gets, manifest_failures,
                   parse_log, attempts>>
    /\ UNCHANGED <<observed, other_vars>>

\* ways _download_package_version_data_manifest ends with None: the GET
\* fails, _decompress_mszip raises, the bytes are no UTF-8, the YAML does not
\* parse or is no mapping, or the mapping is empty
IndexFailures == {"http_error", "format_error", "decode_error", "yaml_error", "not_mapping", "empty_mapping"}

\* faulty variant: the None of a failed index download is not tested
IndexAnswerNeverTested(answer) == FALSE

\* `if not version_data_manifest: raise`
VersionIndexUnusable(answer) == answer \in IndexFailures

\* _load_all_versions_from_manifests, up to the version loop
LoadVersionIndex ==
    /\ pc = "load_index"
    /\ \E answer \in IndexFailures \cup {"ok"}, doc \in IndexDocs :
      /\ calls' = [calls EXCEPT !.index = @ + 1, !.index_answer = answer,
                                !.index_doc = IF VersionIndexUnusable(answer)
                                              THEN <<>> ELSE doc]
      /\ IF VersionIndexUnusable(answer)
        THEN /\ Raise("VersionIndexError")
             /\ UNCHANGED <<version_list, loop_versions>>
        ELSE /\ version_list' = TruncateForMode(doc, args.version_mode)
             /\ loop_versions' = version_list'
             /\ pc' = "version_loop"
             /\ UNCHANGED outcome
    /\ UNCHANGED <<db, next_guid, db0, args, manifest_doc, all_version_data,
                   version_data_list, idx, target_path, download, imported_versions,
                   errors, manifest_gets, manifest_failures, parse_log, attempts>>
    /\ UNCHANGED <<observed, other_vars>>


\* `if version_filter and not fnmatch.fnmatch(version_str, version_filter)`
RejectedByVersionFilter(entry) ==
    args.version_filter.glob /\ ~fnmatch(entry.version, args.version_filter)

\* the version loop moves on to the next index entry
NextVersion ==
    /\ version_list' = Tail(version_list)
    /\ manifest_doc' = NoDoc
    /\ pc' = "version_loop"

\* the version loop has handled every entry
EndVersionLoop ==
    /\ pc = "version_loop"
    /\ version_list = <<>>
    /\ pc' = "check"
    /\ UNCHANGED <<db, next_guid, db0, outcome, run_vars, log_vars>>
    /\ UNCHANGED <<observed, other_vars>>

\* `continue` on an entry the version filter rejects
SkipFilteredVersion ==
    /\ pc = "version_loop"
    /\ version_list # <<>>
    /\ RejectedByVersionFilter(Head(version_list))
    /\ NextVersion
    /\ UNCHANGED <<db, next_guid, db0, outcome, args, all_version_data, version_data_list,
                   idx, target_path, download, imported_versions, errors, loop_versions,
                   log_vars>>
    /\ UNCHANGED <<observed, other_vars>>

\* faulty variant: the except clause of the version loop reports the failure
ManifestFailureReported(errs, entry) ==
    Append(errs, [version |-> entry.version, error |-> "ManifestError"])

\* errors after the `except Exception` of the version loop: it logs a
\* warning and continues
ErrorsAfterManifestFailure(errs, entry) == errs

\* the version loop's except clause
SkipFailedManifest(reason) ==
    /\ NextVersion
    /\ errors' = ErrorsAfterManifestFailure(errors, Head(version_list))
    /\ manifest_failures' = Append(manifest_failures,
            [version |-> Head(version_list).version, reason |-> reason])

\* _download_manifest_with_text: the GET of the manifest
FetchManifest ==
    /\ pc = "version_loop"
    /\ version_list # <<>>
    /\ ~RejectedByVersionFilter(Head(version_list))
    /\ manifest_gets' = Append(manifest_gets, Head(version_list).version)
    /\ \/ SkipFailedManifest("FetchError")
       \/ \E doc \in ManifestDocs :
            /\ manifest_doc' = doc
            /\ pc' = "verify_manifest"
            /\ UNCHANGED <<version_list, errors, manifest_failures>>
    /\ UNCHANGED <<db, next_guid, db0, outcome, args, all_version_data, version_data_list,
                   idx, target_path, download, imported_versions, loop_versions,
                   parse_log, attempts, calls>>
    /\ UNCHANGED <<observed, other_vars>>

\* faulty variant: the manifest is parsed without a hash check
ManifestHashNeverTested(actual_hash, expected_hash) == FALSE

\* `if expected_hash: if actual_hash.lower() != expected_hash.lower(): raise`
ManifestHashRejected(actual_hash, expected_hash) == HashRejected(actual_hash, expected_hash)

\* _download_manifest_with_text: the hash check
VerifyManifestHash ==
    /\ pc = "verify_manifest"
    /\ IF ManifestHashRejected(manifest_doc.digest, Head(version_list).manifest_hash)
       THEN SkipFailedManifest("HashMismatch")
       ELSE /\ pc' = "parse_manifest"
            /\ UNCHANGED <<version_list, manifest_doc, errors, manifest_failures>>
    /\ UNCHANGED <<db, next_guid, db0, outcome, args, all_version_data, version_data_list,
                   idx, target_path, download, imported_versions, loop_versions,
                   manifest_gets, parse_log, attempts, calls>>
    /\ UNCHANGED <<observed, other_vars>>

\* _download_manifest_with_text: yaml.safe_load(content)
ParseManifest ==
    /\ pc = "parse_manifest"
    /\ parse_log' = Append(parse_log,
            [version |-> Head(version_list).version,
             hash_differs |-> HashRejected(manifest_doc.digest, Head(version_list).manifest_hash)])
    /\ IF manifest_doc.kind = "bad_yaml"
       THEN SkipFailedManifest("ParseError")
       ELSE /\ pc' = "extract"
            /\ UNCHANGED <<version_list, manifest_doc, errors, manifest_failures>>
    /\ UNCHANGED <<db, next_guid, db0, outcome, args, all_version_data, version_data_list,
                   idx, target_path, download, imported_versions, loop_versions,
                   manifest_gets, attempts, calls>>
    /\ UNCHANGED <<observed, other_vars>>

\* _extract_installer_info and the loop over its result.  The call stands
\* outside the try of the version loop: manifest.get on a document that is
\* no mapping raises AttributeError out of import_package.
ExtractInstallers ==
    /\ pc = "extract"
    /\ IF manifest_doc.kind = "not_mapping"
       THEN /\ Raise("UnhandledManifestError")
            /\ UNCHANGED <<version_list, manifest_doc, all_version_data>>
       ELSE /\ all_version_data' = all_version_data \o
                    extract_installer_info(Head(version_list), manifest_doc,
                                           manifest_doc.Installers, args.architectures,
                                           args.scopes, args.installer_types)
            /\ NextVersion
            /\ UNCHANGED outcome
    /\ UNCHANGED <<db, next_guid, db0, args, version_data_list, idx, target_path,
                   download, imported_versions, errors, loop_versions, log_vars>>
    /\ UNCHANGED <<observed, other_vars>>


\* faulty variant: an empty candidate list is let through
EmptyCandidatesAccepted(version_data) == FALSE

\* `if not all_version_data: raise ValueError("No versions found ...")`
HasNoCandidates(version_data) == version_data = <<>>

\* the run fails with NoMatchingVersions before anything is persisted
RaiseNoMatchingVersions ==
    /\ pc = "check"
    /\ HasNoCandidates(all_version_data)
    /\ Raise("NoMatchingVersions")
    /\ UNCHANGED <<db, next_guid, db0, run_vars, log_vars>>
    /\ UNCHANGED <<observed, other_vars>>

\* the PackageCommonMetadata import_package builds from its arguments alone
BuildPackageMetadata(a) ==
    PackageCommonMetadata(a.package_id, a.track_cache,
        IF a.track_cache
        THEN CacheSettings(a.architectures, a.scopes, a.installer_types,
                           a.version_mode, a.version_filter, a.track_cache)
        ELSE NoCacheSettings)

\* the selection step and self.db.save_package(package_metadata)
SelectAndSavePackage ==
    /\ pc = "check"
    /\ ~HasNoCandidates(all_version_data)
    /\ version_data_list' =
          IF args.version_mode = "latest"
          THEN select_latest_version_data(all_version_data, args.installer_types)
          ELSE all_version_data
    /\ db' = save_package(db, BuildPackageMetadata(args))
    /\ idx' = 1
    /\ pc' = "import_loop"
    /\ UNCHANGED <<next_guid, db0, outcome, args, version_list, manifest_doc,
                   all_version_data, target_path, download, imported_versions, errors,
                   loop_versions, log_vars>>
    /\ UNCHANGED <<observed, other_vars>>

\* the `x or default` lines at the head of _import_version_from_data
ReqArch(vd) == Or2(vd.architecture, "x64")

ReqScope(vd) == Or2(vd.scope, "user")

ReqType(vd) == Or2(vd.installer_type, "exe")

\* faulty variant: the index is not consulted before a download
NeverExisting(d, package_id, vd) == FALSE

\* "Check if identical installer already exists"
ExistingIdentical(d, package_id, vd) ==
    LET pkg_index == get_package(d, package_id)
    IN  /\ pkg_index.exists
        /\ \E i \in DOMAIN pkg_index.versions :
              LET v == pkg_index.versions[i]
              IN  /\ v.version = vd.version
                  /\ LowerStr(v.architecture) = LowerStr(ReqArch(vd))
                  /\ LowerStr(Or2(v.scope, "user")) = LowerStr(ReqScope(vd))
                  /\ LowerStr(Or2(v.installer_type, "exe")) = LowerStr(ReqType(vd))

\* the download loop is over: import_package returns its result dictionary
ReturnResult ==
    /\ pc = "import_loop"
    /\ idx > Len(version_data_list)
    /\ pc' = "done"
    /\ outcome' = "ok"
    /\ UNCHANGED <<db, next_guid, db0, run_vars, log_vars>>
    /\ UNCHANGED <<observed, other_vars>>

\* _import_version_from_data returns "skipped" for a stored installer
SkipExistingInstaller ==
    /\ pc = "import_loop"
    /\ idx <= Len(version_data_list)
    /\ ExistingIdentical(db, args.package_id, version_data_list[idx])
    /\ imported_versions' = Append(imported_versions,
            [status |-> "skipped", version |-> version_data_list[idx].version])
    /\ idx' = idx + 1
    /\ UNCHANGED <<db, next_guid, db0, pc, outcome, args, version_list, manifest_doc,
                   all_version_data, version_data_list, target_path, download, errors,
                   loop_versions, log_vars>>
    /\ UNCHANGED <<observed, other_vars>>

\* faulty variant: the installer hash is compared without lower()
CaseSensitiveHashRejected(actual_hash, expected_hash) ==
    /\ expected_hash # <<>>
    /\ actual_hash # expected_hash

\* the hash test of _download_installer
InstallerHashRejected(actual_hash, expected_hash) == HashRejected(actual_hash, expected_hash)

\* _download_installer: the body is streamed to target_path; a network error
\* leaves whatever was written, a hash mismatch unlinks the file
DownloadInstaller ==
    /\ pc = "import_loop"
    /\ idx <= Len(version_data_list)
    /\ ~ExistingIdentical(db, args.package_id, version_data_list[idx])
    /\ attempts' = Append(attempts, idx)
    /\ \/ /\ download' = [status |-> "FetchError", hash |-> <<>>]
          /\ target_path' \in {"none", "partial"}
       \/ LET actual_hash == UrlDigest(version_data_list[idx].url)
          IN  IF InstallerHashRejected(actual_hash, version_data_list[idx].sha256)
              THEN /\ download' = [status |-> "HashMismatch", hash |-> actual_hash]
                   /\ target_path' = "none"
              ELSE /\ download' = [status |-> "ok", hash |-> actual_hash]
                   /\ target_path' = "complete"
    /\ calls' = [calls EXCEPT !.downloads =
                    Append(@, [run |-> calls.catalog, position |-> idx,
                               status |-> download'.status])]
    /\ pc' = "after_download"
    /\ UNCHANGED <<db, next_guid, db0, outcome, args, version_list, manifest_doc,
                   all_version_data, version_data_list, idx, imported_versions, errors,
                   loop_versions, manifest_gets, manifest_failures, parse_log>>
    /\ UNCHANGED <<observed, other_vars>>

\* faulty variant: a failed download is tried again, up to three attempts
RetryUpToThreeAttempts(failed_attempts) == failed_attempts < 3

\* faulty variant: the except clause of the download loop drops the failure
ErrorDropped(errs, version, error) == errs

\* the except clause of the download loop: the failure is recorded at once,
\* the installer is not tried again
RetryAfterFailure(failed_attempts) == FALSE

\* errors.append({"version": version_str, "error": str(e)})
RecordError(errs, version, error) == Append(errs, [version |-> version, error |-> error])

\* VersionMetadata(...) of a downloaded installer
VersionMetadata(vd, installer_hash) ==
    [version |-> vd.version,
     architecture |-> ReqArch(vd),
     scope |-> ReqScope(vd),
     installer_type |-> vd.installer_type,
     installer_sha256 |-> installer_hash,
     installer_guid |-> 0,
     storage_path |-> <<>>]

AttemptsAt(i) == Cardinality({ k \in DOMAIN attempts : attempts[k] = i })

\* the rest of _import_version_from_data and of the loop body: the record
\* is added to the index, or the exception lands in the error list; the
\* temporary directory is removed either way
FinishImportVersion ==
    /\ pc = "after_download"
    /\ LET vd == version_data_list[idx]
       IN  IF download.status = "ok" /\ vd.installer_type # ""
           THEN /\ db' = add_installer(db, args.package_id,
                                       VersionMetadata(vd, download.hash), next_guid)
                /\ next_guid' = next_guid + 1
                /\ imported_versions' = Append(imported_versions,
                        [status |-> "imported", version |-> vd.version])
                /\ idx' = idx + 1
                /\ UNCHANGED errors
           ELSE /\ UNCHANGED <<db, next_guid, imported_versions>>
                /\ IF RetryAfterFailure(AttemptsAt(idx))
                   THEN UNCHANGED <<idx, errors>>
                   ELSE /\ idx' = idx + 1
                        /\ errors' = RecordError(errors, vd.version,
                                IF download.status = "ok" THEN "ValidationError"
                                ELSE download.status)
    /\ target_path' = "none"
    /\ download' = NoDownload
    /\ pc' = "import_loop"
    /\ UNCHANGED <<db0, outcome, args, version_list, manifest_doc, all_version_data,
                   version_data_list, loop_versions, log_vars>>
    /\ UNCHANGED <<observed, other_vars>>

\* the task is cancelled while it awaits a network call: CancelledError is
\* no Exception, so no except clause of the run catches it
Cancel ==
    /\ \/ pc = "load_index"
       \/ pc = "version_loop" /\ version_list # <<>>
            /\ ~RejectedByVersionFilter(Head(version_list))
       \/ pc = "import_loop" /\ idx <= Len(version_data_list)
            /\ ~ExistingIdentical(db, args.package_id, version_data_list[idx])
    /\ Raise("Cancelled")
    /\ UNCHANGED <<db, next_guid, db0, run_vars, log_vars>>
    /\ UNCHANGED <<observed, other_vars>>

\* the run is suspended in an await on the network: the event loop serves
\* other requests and tasks meanwhile
AwaitingNetwork ==
    \/ pc = "load_index"
    \/ pc = "version_loop" /\ version_list # <<>>
         /\ ~RejectedByVersionFilter(Head(version_list))
    \/ pc = "import_loop" /\ idx <= Len(version_data_list)
         /\ ~ExistingIdentical(db, args.package_id, version_data_list[idx])

\* a search or manifest request served while the run is suspended: it reads
\* the package entry of the shared index as the run has left it so far
ReadDuringImport ==
    /\ AwaitingNetwork
    /\ ~observed.taken
    /\ observed' = [taken |-> TRUE, package |-> get_package(db, args.package_id)]
    /\ UNCHANGED <<db, next_guid, db0, pc, outcome, run_vars, log_vars, other_vars>>

Next ==
    \/ ResolvePackage
    \/ LoadVersionIndex
    \/ EndVersionLoop
    \/ SkipFilteredVersion
    \/ FetchManifest
    \/ VerifyManifestHash
    \/ ParseManifest
    \/ ExtractInstallers
    \/ RaiseNoMatchingVersions
    \/ SelectAndSavePackage
    \/ ReturnResult
    \/ SkipExistingInstaller
    \/ DownloadInstaller
    \/ FinishImportVersion
    \/ Cancel
    \/ ReadDuringImport

Spec == Init /\ [][Next]_vars

\* ------------------------------------------------------------------------
\* A run repeated after it returned
\* ------------------------------------------------------------------------

\* import_package called again with the same arguments after it returned,
\* against an upstream that answers as before: the catalog lookup and the
\* version loop read the upstream alone, so they rebuild the candidates and
\* the selection of the first run; the step ends with save_package
RepeatRun ==
    /\ pc = "done"
    /\ outcome = "ok"
    /\ calls.catalog = 1
    /\ calls' = [calls EXCEPT !.catalog = 2, !.index = 2]
    /\ db0' = db
    /\ db' = save_package(db, BuildPackageMetadata(args))
    /\ idx' = 1
    /\ imported_versions' = <<>>
    /\ errors' = <<>>
    /\ attempts' = <<>>
    /\ download' = NoDownload
    /\ target_path' = "none"
    /\ outcome' = "none"
    /\ pc' = "import_loop"
    /\ UNCHANGED <<next_guid, args, version_list, manifest_doc, all_version_data,
                   version_data_list, loop_versions, manifest_gets, manifest_failures,
                   parse_log>>
    /\ UNCHANGED <<observed, other_vars>>

\* a download of the repeated run ends as the download of the same
\* installer ended in the first run
RepeatedDownload ==
    /\ DownloadInstaller
    /\ calls.catalog = 2 =>
          \E k \in DOMAIN calls.downloads :
              /\ calls.downloads[k].run = 1
              /\ calls.downloads[k].position = idx
              /\ calls.downloads[k].status = download'.status

RepeatNext ==
    \/ ResolvePackage
    \/ LoadVersionIndex
    \/ EndVersionLoop
    \/ SkipFilteredVersion
    \/ FetchManifest
    \/ VerifyManifestHash
    \/ ParseManifest
    \/ ExtractInstallers
    \/ RaiseNoMatchingVersions
    \/ SelectAndSavePackage
    \/ ReturnResult
    \/ SkipExistingInstaller
    \/ RepeatedDownload
    \/ FinishImportVersion
    \/ Cancel
    \/ ReadDuringImport
    \/ RepeatRun

RepeatSpec == Init /\ [][RepeatNext]_vars


\* ------------------------------------------------------------------------
\* Properties of the import run
\* ------------------------------------------------------------------------

DownloadPhase == {"import_loop", "after_download"}

Skipped == { k \in DOMAIN imported_versions : imported_versions[k].status = "skipped" }

Imported == { k \in DOMAIN imported_versions : imported_versions[k].status = "imported" }

IsPrefix(s, t) == Len(s) <= Len(t) /\ SubSeq(t, 1, Len(s)) = s

\* C1: a run whose version loop ends with no extracted candidate fails with
\* NoMatchingVersions and leaves the repository index as it was; a run that
\* extracted a candidate never fails with NoMatchingVersions, and only such
\* a run persists anything or returns a result.
C1_ZeroCandidatesFailTheRun ==
    /\ [](outcome = "NoMatchingVersions" => all_version_data = <<>> /\ db = db0)
    /\ []((pc \in DownloadPhase \/ outcome = "ok") => all_version_data # <<>>)
    /\ [][(pc = "check" /\ all_version_data = <<>>)
            => (outcome' = "NoMatchingVersions" /\ db' = db0)]_vars
    /\ [][(pc = "check" /\ all_version_data # <<>>)
            => outcome' # "NoMatchingVersions"]_vars

\* a manifest was fetched and parsed, and still no candidate came out of it
C1_Witness ==
    /\ outcome = "NoMatchingVersions"
    /\ parse_log # <<>>
    /\ db = db0

\* C2: in the download phase a failed installer goes to the error list and
\* the loop goes on; each selected installer is attempted at most once; the
\* run returns with importedCount + |errorList| = number of selected
\* installers, also when nothing was imported; and it does not raise.
C2_DownloadFailuresAreCollected ==
    /\ [](pc \in DownloadPhase => Len(imported_versions) + Len(errors) = idx - 1)
    /\ [](outcome = "ok" =>
            /\ Len(imported_versions) + Len(errors) = Len(version_data_list)
            /\ \A i \in DOMAIN version_data_list :
                  Cardinality({ k \in DOMAIN attempts : attempts[k] = i }) <= 1
            /\ Len(attempts) + Cardinality(Skipped) = Len(version_data_list))
    /\ [][(pc \in DownloadPhase) => (outcome' \in {"none", "ok", "Cancelled"})]_vars

\* every download of a run with two selected installers failed
C2_Witness ==
    /\ outcome = "ok"
    /\ imported_versions = <<>>
    /\ Len(errors) = 2
    /\ Len(attempts) = 2

\* the index entries the version filter lets through
RECURSIVE PassingVersions(_)
PassingVersions(entries) ==
    IF entries = <<>> THEN <<>>
    ELSE IF RejectedByVersionFilter(Head(entries))
         THEN PassingVersions(Tail(entries))
         ELSE <<Head(entries).version>> \o PassingVersions(Tail(entries))

\* C3: a failure on one version's manifest skips only that version: the run
\* does not abort because of it, and a run that ends by itself has fetched
\* the manifest of every index entry the version filter lets through.
C3_ManifestFailureSkipsOnlyThatVersion ==
    /\ outcome # "UnhandledManifestError"
    /\ (calls.index_answer = "ok" /\ pc = "done" /\ outcome # "Cancelled")
          => manifest_gets = PassingVersions(loop_versions)

SomeButNotAllManifestsFailed ==
    /\ manifest_failures # <<>>
    /\ Len(manifest_failures) < Len(manifest_gets)

DownloadErrors == {"FetchError", "HashMismatch", "ValidationError"}

C5_CatalogOrIndexFailureAborts ==
    (calls.catalog_answer = "missing" \/ calls.index_answer \in IndexFailures)
    => /\ pc = "done"
       /\ outcome = (IF calls.catalog_answer = "missing" THEN "PackageNotFound"
                     ELSE "VersionIndexError")
       /\ manifest_gets = <<>>
       /\ attempts = <<>>
       /\ version_list = <<>>
       /\ loop_versions = <<>>
       /\ db = db0

\* the compressed index could not be decompressed
C5_Witness ==
    /\ calls.index_answer = "format_error"
    /\ outcome = "VersionIndexError"

C7_InstallerHashMismatch ==
    /\ []((pc = "after_download" /\ download.status # "FetchError") =>
            LET vd == version_data_list[idx]
            IN  IF vd.sha256 # <<>> /\ LowerHash(download.hash) # LowerHash(vd.sha256)
                THEN download.status = "HashMismatch" /\ target_path = "none"
                ELSE download.status = "ok" /\ target_path = "complete")
    /\ [][(pc = "after_download" /\ download.status = "HashMismatch")
            => /\ db' = db
               /\ errors' = Append(errors, [version |-> version_data_list[idx].version,
                                            error |-> "HashMismatch"])]_vars

\* one installer of the run was rejected for its hash, another whose
\* expected hash differs from the digest in letter case only was stored
C7_Witness ==
    /\ outcome = "ok"
    /\ \E k \in DOMAIN errors : errors[k].error = "HashMismatch"
    /\ \E i \in DOMAIN version_data_list :
          /\ version_data_list[i].sha256 = <<"A", "B">>
          /\ \E k \in DOMAIN db["p"].versions :
                /\ db["p"].versions[k].version = version_data_list[i].version
                /\ db["p"].versions[k].installer_guid < 100
                /\ db["p"].versions[k].installer_sha256 = <<"a", "b">>

\* C8: no manifest whose digest differs from a supplied expected hash is
\* ever handed to the YAML parser, or is held while the run parses or
\* extracts; the hash check of such a manifest ends the fetch with
\* HashMismatch and nothing parsed.
C8_ManifestHashCheckedBeforeParse ==
    /\ [](/\ \A k \in DOMAIN parse_log : ~parse_log[k].hash_differs
          /\ pc \in {"parse_manifest", "extract"} =>
                ~HashRejected(manifest_doc.digest, Head(version_list).manifest_hash))
    /\ [][(pc = "verify_manifest"
            /\ HashRejected(manifest_doc.digest, Head(version_list).manifest_hash))
            => /\ parse_log' = parse_log
               /\ manifest_failures' = Append(manifest_failures,
                      [version |-> Head(version_list).version, reason |-> "HashMismatch"])
               /\ pc' = "version_loop"]_vars

\* a manifest failed its hash check and no manifest was parsed so far
C8_Witness ==
    /\ \E k \in DOMAIN manifest_failures : manifest_failures[k].reason = "HashMismatch"
    /\ parse_log = <<>>
    /\ pc = "version_loop"

\* the installer records of the imported package in an index
StoredVersions(d) == IF d["p"].exists THEN d["p"].versions ELSE <<>>

\* C9: the installer records of the package only grow, by appending, in
\* every step of a run, also in the step that cancels or aborts it; once the
\* PackageRecord is saved it stays as saved; each imported installer is one
\* more stored record, whatever way the run ends.
C9_PersistedRecordsStay ==
    /\ [](/\ IsPrefix(StoredVersions(db0), StoredVersions(db))
          /\ Len(StoredVersions(db)) = Len(StoredVersions(db0)) + Cardinality(Imported)
          /\ (pc \in DownloadPhase \/ imported_versions # <<>>) =>
                /\ db["p"].exists
                /\ db["p"].package = BuildPackageMetadata(args))
    /\ [][/\ IsPrefix(StoredVersions(db), StoredVersions(db'))
          /\ db["p"].exists => (db'["p"].exists /\ db'["p"].storage_path = db["p"].storage_path)
          /\ (pc \in DownloadPhase) => db'["p"].package = db["p"].package
          /\ db'["q"] = db["q"]]_vars

\* a run was cancelled after it had stored an installer next to an older one
C9_Witness ==
    /\ outcome = "Cancelled"
    /\ Imported # {}
    /\ Len(StoredVersions(db0)) = 1
    /\ Len(StoredVersions(db)) = 2
    /\ db["p"].package = BuildPackageMetadata(args)

\* C10 as stated: after a successful run on a package that had cache
\* settings, the stored record still has cache settings, with the
\* auto-update flag the package had before the run.
C10_CacheSettingsMerged ==
    (outcome = "ok" /\ db0["p"].exists /\ db0["p"].package.cache_settings.present)
    => /\ db["p"].package.cache_settings.present
       /\ db["p"].package.cache_settings.auto_update =
              db0["p"].package.cache_settings.auto_update

\* ------------------------------------------------------------------------
\* Concurrent import runs
\* ------------------------------------------------------------------------

\* most installers one run adds to the index
MaxInstallersPerRun == 2

import_vars == <<db, next_guid, pc, outcome, db0, run_vars, log_vars, observed>>

\* no import run of the detailed model is under way
ImportAtRest ==
    /\ db = [id \in PackageIds |-> IF id = "q" THEN BystanderPackage ELSE NoPackage]
    /\ next_guid = 1
    /\ pc = "idle"
    /\ args = [package_id |-> "p", architectures |-> <<>>, scopes |-> <<>>,
               installer_types |-> <<>>, version_mode |-> "latest",
               version_filter |-> NoFilter, track_cache |-> TRUE]
    /\ version_list = <<>>
    /\ manifest_doc = NoDoc
    /\ all_version_data = <<>>
    /\ version_data_list = <<>>
    /\ idx = 1
    /\ target_path = "none"
    /\ download = NoDownload
    /\ imported_versions = <<>>
    /\ errors = <<>>
    /\ outcome = "none"
    /\ db0 = db
    /\ loop_versions = <<>>
    /\ manifest_gets = <<>>
    /\ manifest_failures = <<>>
    /\ parse_log = <<>>
    /\ attempts = <<>>
    /\ calls = [catalog |-> 0, index |-> 0, catalog_answer |-> "", index_answer |-> "",
               index_doc |-> <<>>, downloads |-> <<>>]
    /\ observed = NoObservation

WritersInit ==
    /\ ImportAtRest
    /\ runs = NoRuns
    /\ index = EmptyIndex
    /\ call = NoCall

\* a starter calls `await import_package(package_id, ...)`: the run first
\* awaits the version index and the manifests
BeginRun(r, package_id) ==
    /\ runs[r].pc = "idle"
    /\ runs' = [runs EXCEPT ![r] = [pc |-> "loading", package_id |-> package_id,
                                    todo |-> 0, added |-> 0]]
    /\ UNCHANGED <<import_vars, index, call>>

\* the daily job reaches a cached package whose upstream latest version
\* differs from the local one
StartDailyImport == \E package_id \in PackageIds : BeginRun("daily", package_id)

\* POST /admin/cached-packages/{package_id}
StartAdminImport == \E package_id \in PackageIds : BeginRun("admin", package_id)

\* the run fails before it persists anything
RunRaises(r) ==
    /\ runs[r].pc = "loading"
    /\ runs' = [runs EXCEPT ![r] = IdleRun]
    /\ UNCHANGED <<import_vars, index, call>>

\* self.db.save_package(package_metadata): the first persist step; todo is
\* the number of installers the run is going to add
RunSavesPackage(r) ==
    /\ runs[r].pc = "loading"
    /\ \E n \in 0..MaxInstallersPerRun :
          runs' = [runs EXCEPT ![r].pc = "persisting", ![r].todo = n]
    /\ UNCHANGED <<import_vars, index, call>>

\* self.db.add_installer(...) after an awaited download
RunAddsInstaller(r) ==
    /\ runs[r].pc = "persisting"
    /\ runs[r].todo > 0
    /\ runs' = [runs EXCEPT ![r].todo = @ - 1, ![r].added = @ + 1]
    /\ UNCHANGED <<import_vars, index, call>>

\* import_package returns to its starter
RunReturns(r) ==
    /\ runs[r].pc = "persisting"
    /\ runs[r].todo = 0
    /\ runs' = [runs EXCEPT ![r] = IdleRun]
    /\ UNCHANGED <<import_vars, index, call>>

WritersNext ==
    \/ StartDailyImport
    \/ StartAdminImport
    \/ \E r \in Starters : RunRaises(r)
    \/ \E r \in Starters : RunSavesPackage(r)
    \/ \E r \in Starters : RunAddsInstaller(r)
    \/ \E r \in Starters : RunReturns(r)

WritersSpec == WritersInit /\ [][WritersNext]_vars

\* ------------------------------------------------------------------------
\* Text matching
\* ------------------------------------------------------------------------

\* longest value and keyword the match engine is applied to
MaxTextLen == 2

\* Optional[...]: None, or the one value it holds
None == {}

Some(x) == {x}

ValueOf(o) == CHOOSE x \in o : TRUE

\* str.lower(), character by character
Lower(s) == [i \in DOMAIN s |-> LowerChar(s[i])]

\* k in v
Contains(v, k) ==
    \E i \in 0..(Len(v) - Len(k)) : SubSeq(v, i + 1, i + Len(k)) = k

\* v.startswith(k)
StartsWith(v, k) == Len(k) <= Len(v) /\ SubSeq(v, 1, Len(k)) = k

\* (match_type or "Substring").strip() or "Substring"
NormalisedMatchType(match_type) ==
    IF match_type = None THEN "Substring"
    ELSE CASE ValueOf(match_type) = " Exact " -> "Exact"
           [] ValueOf(match_type) = " " -> "Substring"
           [] ValueOf(match_type) = "" -> "Substring"
           [] OTHER -> ValueOf(match_type)

\* re.search("^" + re.escape(keyword) with \* -> .* and \? -> . + "$", value,
\* flags=re.IGNORECASE): "." matches any character except a newline, and "$"
\* matches at the end of the value and also just before a newline that ends it
RECURSIVE re_search(_, _)
re_search(keyword, value) ==
    IF keyword = <<>> THEN value = <<>> \/ value = <<"\n">>
    ELSE CASE Head(keyword) = "*" ->
                \/ re_search(Tail(keyword), value)
                \/ /\ value # <<>>
                   /\ Head(value) # "\n"
                   /\ re_search(keyword, Tail(value))
           [] Head(keyword) = "?" ->
                /\ value # <<>>
                /\ Head(value) # "\n"
                /\ re_search(Tail(keyword), Tail(value))
           [] OTHER ->
                /\ value # <<>>
                /\ LowerChar(Head(value)) = LowerChar(Head(keyword))
                /\ re_search(Tail(keyword), Tail(value))

match_text(value, keyword, match_type) ==
    IF keyword = None THEN FALSE
    ELSE LET kw == ValueOf(keyword)
             match == NormalisedMatchType(match_type)
             v == Lower(value)
             k == Lower(kw)
         IN  CASE match = "Exact" -> value = kw
               [] match = "CaseInsensitive" -> v = k
               [] match = "StartsWith" -> StartsWith(v, k)
               [] match \in {"Substring", "Fuzzy", "FuzzySubstring"} -> Contains(v, k)
               [] match = "Wildcard" -> re_search(kw, value)
               [] OTHER -> Contains(v, k)

\* every sequence over alphabet of length at most n
TextsUpTo(alphabet, n) == UNION { [1..m -> alphabet] : m \in 0..n }

Values == TextsUpTo({"a", "A", "b", "\n"}, MaxTextLen)

KeyWords == {None} \cup { Some(k) : k \in TextsUpTo({"a", "A", "b", "*", "?"}, MaxTextLen) }

MatchTypes ==
    {None} \cup { Some(m) : m \in {"Exact", "CaseInsensitive", "StartsWith", "Substring",
                                   "Fuzzy", "FuzzySubstring", "Wildcard",
                                   " Exact ", "exact", "Regex", " ", ""} }

MatchInit ==
    /\ ImportAtRest
    /\ runs = NoRuns
    /\ index = EmptyIndex
    /\ call = NoCall

MatchText ==
    \E value \in Values, keyword \in KeyWords, match_type \in MatchTypes :
        /\ call = NoCall
        /\ call' = [op |-> "match_text", value |-> value, keyword |-> keyword,
                    match_type |-> match_type,
                    result |-> match_text(value, keyword, match_type)]
        /\ UNCHANGED <<import_vars, runs, index>>

MatchSpec == MatchInit /\ [][MatchText]_vars

\* ------------------------------------------------------------------------
\* The search and manifest endpoints
\* ------------------------------------------------------------------------

\* largest MaximumResults a request carries
MaxResultsCap == 2

\* the alternative to SortedReverse that sorts ascending
RECURSIVE SortedAscending(_)
SortedAscending(strings) ==
    IF strings = {} THEN <<>>
    ELSE LET low == CHOOSE x \in strings : \A y \in strings : ~StrLess(y, x)
         IN  <<low>> \o SortedAscending(strings \ {low})

\* sorted(strings, reverse=True) on a set of strings
RECURSIVE SortedReverse(_)
SortedReverse(strings) ==
    IF strings = {} THEN <<>>
    ELSE LET top == CHOOSE x \in strings : \A y \in strings : ~StrLess(x, y)
         IN  <<top>> \o SortedReverse(strings \ {top})

\* VersionMetadata as the repository index holds it; an empty string stands
\* for an absent field, file_digest for the digest of the installer file on
\* disk (empty when there is no file)
IndexedVersion(version, product_code, installer_sha256, file_digest) ==
    [version |-> version, product_code |-> product_code,
     installer_sha256 |-> installer_sha256, file_digest |-> file_digest,
     installer_type |-> "exe", nested_installer_type |-> "",
     nested_installer_files |-> <<>>]

\* the repository indexes the endpoints read
SearchIndexes ==
    LET nested == << [relative_file_path |-> "b.exe", portable_command_alias |-> "b"],
                     [relative_file_path |-> "a.exe", portable_command_alias |-> ""] >>
        A == [id |-> <<"a">>, package_name |-> <<"A", "b">>, publisher |-> <<"b">>,
              tags |-> << <<"a", "b">> >>,
              versions |-> << [IndexedVersion(<<"2">>, <<"b">>, <<"c", "d">>, <<>>)
                                 EXCEPT !.installer_type = "custom"],
                              IndexedVersion(<<"1", "0">>, <<>>, <<>>, <<>>),
                              IndexedVersion(<<"2">>, <<>>, <<>>, <<>>) >>]
        B == [id |-> <<"b">>, package_name |-> <<>>, publisher |-> <<>>, tags |-> <<>>,
              versions |-> << IndexedVersion(<<>>, <<"a">>, <<"a", "b">>, <<>>) >>]
        C == [id |-> <<"a", "b">>, package_name |-> <<"a">>, publisher |-> <<"a">>,
              tags |-> << <<"b">>, <<"a">> >>, versions |-> <<>>]
        D == [id |-> <<"b", "a">>, package_name |-> <<"a", "\n">>, publisher |-> <<>>,
              tags |-> <<>>,
              versions |-> << [IndexedVersion(<<"1", ".", "9", ".", "0">>, <<"a">>, <<>>,
                                              <<"a", "b">>)
                                 EXCEPT !.installer_type = "msi",
                                        !.nested_installer_type = "exe",
                                        !.nested_installer_files = nested],
                              [IndexedVersion(<<"1", ".", "1", "0", ".", "0">>, <<>>,
                                              <<"c", "d">>, <<>>)
                                 EXCEPT !.installer_type = "zip",
                                        !.nested_installer_type = "exe",
                                        !.nested_installer_files = nested] >>]
        E == [id |-> <<"b", "b">>, package_name |-> <<"b">>, publisher |-> <<>>,
              tags |-> <<>>,
              versions |-> << IndexedVersion(<<"1">>, <<>>, <<>>, <<>>) >>]
    IN  { <<>>, <<A>>, <<B, C, E>>, <<A, B, D>>, <<D, C, A>> }

\* list(index.packages.values())
Packages(ix) == { ix[i] : i \in DOMAIN ix }

\* PackageMatchFilter(PackageMatchField, RequestMatch(KeyWord, MatchType))
PackageMatchFilter(field, keyword, match_type) ==
    [PackageMatchField |-> field, KeyWord |-> keyword, MatchType |-> match_type]

\* the lists of criteria a request carries as Inclusions or as Filters
CriteriaLists ==
    { <<>>,
      << PackageMatchFilter("PackageIdentifier", None, None) >>,
      << PackageMatchFilter("PackageIdentifier", Some(<<"a">>), None) >>,
      << PackageMatchFilter("PackageIdentifier", Some(<<"a">>), Some("Exact")) >>,
      << PackageMatchFilter("PackageName", Some(<<"a">>), Some("StartsWith")) >>,
      << PackageMatchFilter("Tag", Some(<<"B">>), Some("CaseInsensitive")) >>,
      << PackageMatchFilter("Tag", None, Some("Substring")) >>,
      << PackageMatchFilter("ProductCode", Some(<<"a">>), None) >>,
      << PackageMatchFilter("Moniker", Some(<<"a">>), None) >>,
      << PackageMatchFilter("PackageIdentifier", Some(<<"b">>), Some("Exact")),
         PackageMatchFilter("Tag", Some(<<"a">>), None) >> }

\* the ManifestSearchRequest bodies
SearchRequests ==
    [MaximumResults : {None} \cup { Some(n) : n \in -1..MaxResultsCap },
     FetchAllManifests : BOOLEAN,
     Query : { None,
               Some([KeyWord |-> None, MatchType |-> None]),
               Some([KeyWord |-> Some(<<>>), MatchType |-> Some("Exact")]),
               Some([KeyWord |-> Some(<<"b">>), MatchType |-> None]),
               Some([KeyWord |-> Some(<<"a", "?">>), MatchType |-> Some("Wildcard")]) },
     Inclusions : CriteriaLists,
     Filters : CriteriaLists]

\* _values_for_field
values_for_field(field, pkg) ==
    CASE field = "PackageIdentifier" -> {pkg.id}
      [] field = "PackageName" ->
            IF pkg.package_name # <<>> THEN {pkg.package_name} ELSE {}
      [] field = "Tag" -> SeqToSet(pkg.tags)
      [] field = "ProductCode" ->
            { pkg.versions[i].product_code :
                i \in { j \in DOMAIN pkg.versions : pkg.versions[j].product_code # <<>> } }
      [] OTHER -> {}

\* the alternative to package_matches_filter that hands the keyword to
\* match_text as it arrived
matches_filter_keyword_as_sent(pkg, flt) ==
    \E v \in values_for_field(flt.PackageMatchField, pkg) :
        match_text(v, flt.KeyWord, flt.MatchType)

\* _package_matches_filter: keyword = flt.RequestMatch.KeyWord or ""
package_matches_filter(pkg, flt) ==
    LET keyword == IF flt.KeyWord = None THEN Some(<<>>) ELSE flt.KeyWord
    IN  \E v \in values_for_field(flt.PackageMatchField, pkg) :
            match_text(v, keyword, flt.MatchType)

\* body.Query and body.Query.KeyWord
HasQueryKeyWord(query) ==
    /\ query # None
    /\ ValueOf(query).KeyWord # None
    /\ ValueOf(ValueOf(query).KeyWord) # <<>>

\* _package_matches_query
package_matches_query(pkg, query) ==
    /\ HasQueryKeyWord(query)
    /\ \E value \in {pkg.id, pkg.package_name, pkg.publisher} \cup SeqToSet(pkg.tags) :
          match_text(value, ValueOf(query).KeyWord, ValueOf(query).MatchType)

\* the alternative to StartsFromAll in which an empty request selects nothing
NeverStartsFromAll(body, matched) == FALSE

\* "If neither Query nor Inclusions were provided, start from all packages"
StartsFromAll(body, matched) ==
    /\ matched = {}
    /\ ~HasQueryKeyWord(body.Query)
    /\ body.Inclusions = <<>>

\* step 1 of manifest_search: candidate_ids
candidate_ids(ix, body) ==
    IF body.FetchAllManifests THEN Packages(ix)
    ELSE LET matched ==
                 { pkg \in Packages(ix) :
                     \/ package_matches_query(pkg, body.Query)
                     \/ \E i \in DOMAIN body.Inclusions :
                           package_matches_filter(pkg, body.Inclusions[i]) }
         IN  IF StartsFromAll(body, matched) THEN Packages(ix) ELSE matched

\* step 2 of manifest_search: filtered_ids
filtered_ids(ix, body) ==
    { pkg \in candidate_ids(ix, body) :
        \A i \in DOMAIN body.Filters : package_matches_filter(pkg, body.Filters[i]) }

\* the alternative to version_strings that lists a version for every package
version_strings_or_placeholder(pkg) ==
    SortedReverse({ pkg.versions[i].version : i \in DOMAIN pkg.versions } \cup { <<"0">> })

\* sorted({v.version for v in pkg_index.versions if v.version}, reverse=True)
version_strings(pkg) ==
    SortedReverse({ pkg.versions[i].version :
                      i \in { j \in DOMAIN pkg.versions : pkg.versions[j].version # <<>> } })

\* step 3 of manifest_search: results, before the cap
search_results(ix, body) ==
    { [PackageIdentifier |-> pkg.id, PackageName |-> pkg.package_name,
       Publisher |-> pkg.publisher,
       Versions |-> [i \in DOMAIN version_strings(pkg) |->
                       [PackageVersion |-> version_strings(pkg)[i],
                        ProductCodes |->
                           { pkg.versions[k].product_code :
                               k \in { j \in DOMAIN pkg.versions :
                                         /\ pkg.versions[j].version = version_strings(pkg)[i]
                                         /\ pkg.versions[j].product_code # <<>> } }]]] :
      pkg \in { q \in filtered_ids(ix, body) : version_strings(q) # <<>> } }

\* the alternative to StatusFor in which an empty result is answered with 200
AlwaysOk(results) == 200

\* 204 No Content when there are no results
StatusFor(results) == IF results = {} THEN 204 ELSE 200

\* the alternative to ApplyMaximum in which MaximumResults is ignored
IgnoreMaximum(results, maximum) == {results}

\* results[: body.MaximumResults]; the results follow the iteration order of
\* a set of identifiers, so any MaximumResults of them can be the first ones
ApplyMaximum(results, maximum) ==
    IF maximum # None /\ ValueOf(maximum) > 0
    THEN { kept \in SUBSET results :
             Cardinality(kept) = IF Cardinality(results) < ValueOf(maximum)
                                 THEN Cardinality(results) ELSE ValueOf(maximum) }
    ELSE {results}

\* get_repository_index() on the index the storage manager keeps: the
\* packages of d as the endpoints read them, identifiers and versions as
\* text (import_package stores the identifier as the name when the catalog
\* has none)
RepositoryIndexOf(d) ==
    LET text(n) == CASE n = 0 -> <<"0">> [] n = 1 -> <<"1">> [] n = 2 -> <<"2">>
                     [] n = 9 -> <<"9">> [] OTHER -> <<"1", "0">>
        version_text(v) == IF Len(v) = 2 THEN text(v[1]) \o <<".">> \o text(v[2])
                           ELSE <<>>
        entry(id) == [id |-> <<id>>, package_name |-> <<id>>, publisher |-> <<>>,
                      tags |-> <<>>,
                      versions |-> [i \in DOMAIN d[id].versions |->
                          IndexedVersion(version_text(d[id].versions[i].version), <<>>,
                                         d[id].versions[i].installer_sha256, <<>>)]]
    IN  (IF d["p"].exists THEN <<entry("p")>> ELSE <<>>)
          \o (IF d["q"].exists THEN <<entry("q")>> ELSE <<>>)

\* POST /manifestSearch
ManifestSearch ==
    \E body \in SearchRequests :
        LET results == search_results(index, body)
        IN  /\ call = NoCall
            /\ \E data \in ApplyMaximum(results, body.MaximumResults) :
                  call' = [op |-> "manifestSearch", body |-> body,
                           candidates |-> { pkg.id : pkg \in candidate_ids(index, body) },
                           results |-> results,
                           status |-> StatusFor(results),
                           Data |-> IF StatusFor(results) = 204 THEN {} ELSE data]
            /\ UNCHANGED <<import_vars, runs, index>>

\* v.installer_sha256 or _compute_installer_sha256(v.installer_file, v.storage_path)
resolved_sha256(v) ==
    IF v.installer_sha256 # <<>> THEN v.installer_sha256 ELSE v.file_digest

\* the alternative to nested_installer in which the stored type and the
\* stored nested files are emitted for every type
nested_passthrough(v) ==
    [InstallerType |-> v.installer_type,
     NestedInstallerType |-> v.nested_installer_type,
     NestedInstallerFiles |->
        [i \in DOMAIN v.nested_installer_files |->
           [RelativeFilePath |-> v.nested_installer_files[i].relative_file_path,
            PortableCommandAlias |-> v.nested_installer_files[i].portable_command_alias]]]

\* installer_type_value, nested_type and nested_files of one installer
nested_installer(v) ==
    IF v.installer_type = "custom"
    THEN [InstallerType |-> "zip",
          NestedInstallerType |-> "exe",
          NestedInstallerFiles |->
             << [RelativeFilePath |-> "install.bat", PortableCommandAlias |-> ""] >>]
    ELSE IF v.installer_type = "zip"
    THEN [InstallerType |-> "zip",
          NestedInstallerType |-> v.nested_installer_type,
          NestedInstallerFiles |->
             [i \in DOMAIN v.nested_installer_files |->
                [RelativeFilePath |-> v.nested_installer_files[i].relative_file_path,
                 PortableCommandAlias |->
                    v.nested_installer_files[i].portable_command_alias]]]
    ELSE [InstallerType |-> v.installer_type,
          NestedInstallerType |-> "",
          NestedInstallerFiles |-> <<>>]

\* the version entries of get_package_manifests; "" and <<>> stand for None
version_entries(pkg) ==
    LET keys == SortedReverse({ pkg.versions[i].version : i \in DOMAIN pkg.versions })
        same_version(version_str) == SelectSeq(pkg.versions, LAMBDA v : v.version = version_str)
        kept_installers(version_str) ==
            LET kept == SelectSeq(same_version(version_str),
                                  LAMBDA v : resolved_sha256(v) # <<>>)
            IN  [i \in DOMAIN kept |->
                   [InstallerSha256 |-> resolved_sha256(kept[i]),
                    InstallerType |-> nested_installer(kept[i]).InstallerType,
                    ProductCode |-> kept[i].product_code,
                    NestedInstallerType |-> nested_installer(kept[i]).NestedInstallerType,
                    NestedInstallerFiles |-> nested_installer(kept[i]).NestedInstallerFiles]]
    IN  [i \in DOMAIN keys |->
           [PackageVersion |-> keys[i],
            Publisher |-> pkg.publisher,
            Tags |-> pkg.tags,
            Installers |-> kept_installers(keys[i])]]

\* JSON values: null, a scalar, a list, a dictionary
JNull == [t |-> "null"]

JValue(x) == [t |-> "value", v |-> x]

JList(elems) == [t |-> "list", v |-> elems]

JDict(items) == [t |-> "dict", v |-> items]

\* the JSON value of an optional field, given the value that stands for None
JOptional(x, none) == IF x = none THEN JNull ELSE JValue(x)

\* the dictionary `data` of get_package_manifests, nulls included
manifest_data(package_id, entries) ==
    LET nested_file(f) ==
            JDict([RelativeFilePath |-> JValue(f.RelativeFilePath),
                   PortableCommandAlias |-> JOptional(f.PortableCommandAlias, "")])
        installer(inst) ==
            JDict([InstallerSha256 |-> JValue(inst.InstallerSha256),
                   InstallerType |-> JValue(inst.InstallerType),
                   SignatureSha256 |-> JNull,
                   ProductCode |-> JOptional(inst.ProductCode, <<>>),
                   NestedInstallerType |-> JOptional(inst.NestedInstallerType, ""),
                   NestedInstallerFiles |->
                      JList([i \in DOMAIN inst.NestedInstallerFiles |->
                               nested_file(inst.NestedInstallerFiles[i])])])
        version(entry) ==
            JDict([PackageVersion |-> JValue(entry.PackageVersion),
                   Channel |-> JNull,
                   DefaultLocale |->
                      JDict([PackageLocale |-> JValue("en-US"),
                             Publisher |-> JOptional(entry.Publisher, <<>>),
                             Tags |-> IF entry.Tags = <<>> THEN JNull
                                      ELSE JList([i \in DOMAIN entry.Tags |->
                                                    JValue(entry.Tags[i])])]),
                   Locales |-> JList(<<>>),
                   Installers |-> JList([i \in DOMAIN entry.Installers |->
                                           installer(entry.Installers[i])])])
    IN  JDict([PackageIdentifier |-> JValue(package_id),
               Versions |-> JList([i \in DOMAIN entries |-> version(entries[i])])])

\* the alternative to strip_nulls that cleans the outermost dictionary only
strip_top_level_nulls(value) ==
    IF value.t = "dict"
    THEN JDict([k \in { key \in DOMAIN value.v : value.v[key].t # "null" } |-> value.v[k]])
    ELSE value

\* _strip_nulls
RECURSIVE strip_nulls(_)
strip_nulls(value) ==
    IF value.t = "dict"
    THEN JDict([k \in { key \in DOMAIN value.v : value.v[key].t # "null" } |->
                  strip_nulls(value.v[k])])
    ELSE IF value.t = "list"
    THEN JList([i \in DOMAIN value.v |-> strip_nulls(value.v[i])])
    ELSE value

\* GET /packageManifests/{package_id}
GetPackageManifests ==
    \E package_id \in { <<"a">>, <<"b">>, <<"a", "b">>, <<"b", "a">>, <<"b", "b">> } :
        /\ call = NoCall
        /\ call' = IF \E pkg \in Packages(index) : pkg.id = package_id
                   THEN LET pkg == CHOOSE q \in Packages(index) : q.id = package_id
                            data == manifest_data(package_id, version_entries(pkg))
                        IN  [op |-> "packageManifests", package_id |-> package_id,
                             status |-> 200, Versions |-> version_entries(pkg),
                             data |-> data, Data |-> strip_nulls(data)]
                   ELSE [op |-> "packageManifests", package_id |-> package_id,
                         status |-> 404, Versions |-> <<>>,
                         data |-> JNull, Data |-> JNull]
        /\ UNCHANGED <<import_vars, runs, index>>

ReadInit ==
    /\ ImportAtRest
    /\ runs = NoRuns
    /\ index \in SearchIndexes
    /\ call = NoCall

ReadNext ==
    \/ ManifestSearch
    \/ GetPackageManifests

ReadSpec == ReadInit /\ [][ReadNext]_vars

\* ------------------------------------------------------------------------
\* update_index
\* ------------------------------------------------------------------------

\* the index archives in the order update_index tries them
IndexPackages == <<"source2.msix", "source.msix">>

\* how the part after a completed download can end: the file is no ZIP
\* archive, the archive has no Public/index.db entry, the entry cannot be
\* opened or its copy breaks off after index.db was unlinked, or the database
\* is extracted
ExtractOutcomes == {"bad_zip", "no_index_db", "open_error", "copy_error", "ok"}

\* faulty variant: a fourth attempt is allowed
RetryOnceMore(attempt) == attempt < 4

\* `for attempt in range(1, 4)` with `if attempt < 3: ... sleep ... else: raise`
MayRetry(attempt) == attempt < 3

\* the call begins; index.db is there from an earlier call or is not
BeginUpdateIndex ==
    /\ call = NoCall
    /\ \E previous \in {"none", "previous"} :
          call' = [op |-> "update_index", pc |-> "download", package |-> 1,
                   attempt |-> 1, waited |-> 0, tmp_file |-> FALSE, package_files |-> {},
                   index_db |-> previous, index_db_before |-> previous,
                   downloads |-> <<>>, results |-> <<>>]
    /\ UNCHANGED <<import_vars, runs, index>>

\* the archive at hand is given up with `result`: the next archive is tried,
\* or the call raises after the last one
NextPackage(c, result) ==
    [c EXCEPT !.results = Append(@, result),
              !.package = IF c.package < Len(IndexPackages) THEN @ + 1 ELSE @,
              !.attempt = 1,
              !.waited = 0,
              !.pc = IF c.package < Len(IndexPackages) THEN "download" ELSE "raised"]

\* one GET of the archive into the temporary file, with the except clause of
\* the retry loop: the temporary file is unlinked, then the loop sleeps or
\* re-raises into the outer except clause
DownloadAttempt ==
    /\ call.op = "update_index"
    /\ call.pc = "download"
    /\ \E ok \in BOOLEAN :
          LET logged == [call EXCEPT !.downloads =
                            Append(@, [package_name |-> IndexPackages[call.package],
                                       attempt |-> call.attempt,
                                       waited |-> call.waited, ok |-> ok])]
          IN  call' = IF ok
                      THEN [logged EXCEPT !.tmp_file = TRUE, !.pc = "extract"]
                      ELSE IF MayRetry(call.attempt)
                      THEN [logged EXCEPT !.tmp_file = FALSE, !.pc = "backoff"]
                      ELSE NextPackage([logged EXCEPT !.tmp_file = FALSE],
                                       "download_failed")
    /\ UNCHANGED <<import_vars, runs, index>>

\* await asyncio.sleep(1.0 * attempt), then the next attempt
Backoff ==
    /\ call.op = "update_index"
    /\ call.pc = "backoff"
    /\ call' = [call EXCEPT !.waited = call.attempt, !.attempt = @ + 1, !.pc = "download"]
    /\ UNCHANGED <<import_vars, runs, index>>

\* the temporary file is moved into place and index.db is extracted from
\* the archive; an exception unlinks the archive and goes on to the next
ExtractIndex ==
    /\ call.op = "update_index"
    /\ call.pc = "extract"
    /\ \E result \in ExtractOutcomes :
          LET package_name == IndexPackages[call.package]
              moved == [call EXCEPT !.tmp_file = FALSE,
                                    !.package_files = @ \cup {package_name}]
              failed == [moved EXCEPT !.package_files = @ \ {package_name}]
          IN  call' =
                CASE result = "ok" ->
                        [moved EXCEPT !.index_db = "new", !.results = Append(@, "ok"),
                                      !.pc = "returned"]
                  [] result = "no_index_db" -> NextPackage(moved, result)
                  [] result = "bad_zip" -> NextPackage(failed, result)
                  [] result = "open_error" ->
                        NextPackage([failed EXCEPT !.index_db = "none"], result)
                  [] OTHER ->
                        NextPackage([failed EXCEPT !.index_db = "partial"], result)
    /\ UNCHANGED <<import_vars, runs, index>>

IndexNext ==
    \/ BeginUpdateIndex
    \/ DownloadAttempt
    \/ Backoff
    \/ ExtractIndex

IndexSpec == MatchInit /\ [][IndexNext]_vars

\* ------------------------------------------------------------------------
\* The storage manager on its own
\* ------------------------------------------------------------------------

\* uuid4 values the explored call sequences draw
MaxGuids == 2

\* most installer records of one package in the explored call sequences
MaxStored == 2

\* what the storage calls leave alone
store_rest == <<pc, outcome, db0, run_vars, log_vars, observed, runs, index>>

\* VersionMetadata arguments of the storage calls for a package: a record
\* built without a GUID, and the records a caller has read from the
\* package, unchanged or with another hash
InstallerArguments(package_id) ==
    LET fresh == [version |-> <<1, 0>>, architecture |-> "x64", scope |-> "",
                  installer_type |-> "exe", installer_sha256 |-> <<"a", "b">>,
                  installer_guid |-> 0, storage_path |-> <<>>]
        read == IF db[package_id].exists THEN SeqToSet(db[package_id].versions) ELSE {}
    IN  {fresh} \cup read \cup { [v EXCEPT !.installer_sha256 = <<"c", "d">>] : v \in read }

\* JsonDatabaseManager.save_package called with new metadata
SavePackage ==
    \E package_id \in PackageIds, cached \in BOOLEAN :
        /\ db' = save_package(db, PackageCommonMetadata(package_id, cached, NoCacheSettings))
        /\ call' = [op |-> "save_package", package_id |-> package_id, raised |-> FALSE]
        /\ UNCHANGED <<next_guid, store_rest>>

\* JsonDatabaseManager.add_installer: ValueError for an unknown package
AddInstaller ==
    \E package_id \in PackageIds : \E installer \in InstallerArguments(package_id) :
        LET pkg_index == get_package(db, package_id)
        IN  /\ next_guid <= MaxGuids
            /\ pkg_index.exists => Len(pkg_index.versions) < MaxStored
            /\ db' = IF pkg_index.exists
                     THEN add_installer(db, package_id, installer, next_guid)
                     ELSE db
            /\ next_guid' = IF pkg_index.exists /\ installer.installer_guid = 0
                            THEN next_guid + 1 ELSE next_guid
            /\ call' = [op |-> "add_installer", package_id |-> package_id,
                        raised |-> ~pkg_index.exists]
            /\ UNCHANGED store_rest

\* JsonDatabaseManager.update_installer: the target is the first record with
\* the GUID of the argument, or, for an argument without GUID, the first
\* record without GUID of the same version, architecture and scope; the
\* argument replaces it in the index
UpdateInstaller ==
    \E package_id \in PackageIds : \E installer \in InstallerArguments(package_id) :
        LET pkg_index == get_package(db, package_id)
            versions == IF pkg_index.exists THEN pkg_index.versions ELSE <<>>
            hits == { i \in DOMAIN versions :
                        \/ /\ installer.installer_guid # 0
                           /\ versions[i].installer_guid = installer.installer_guid
                        \/ /\ versions[i].version = installer.version
                           /\ versions[i].architecture = installer.architecture
                           /\ versions[i].scope = installer.scope
                           /\ versions[i].installer_guid = 0
                           /\ installer.installer_guid = 0 }
            found == hits # {}
            first == CHOOSE i \in hits : \A k \in hits : i <= k
            target_version == IF found THEN versions[first] ELSE installer
            raised == \/ ~pkg_index.exists
                      \/ ~found /\ installer.storage_path = <<>>
                      \/ target_version.storage_path = <<>>
        IN  /\ db' = IF ~raised /\ found
                     THEN [db EXCEPT ![package_id].versions[first] = installer]
                     ELSE db
            /\ call' = [op |-> "update_installer", package_id |-> package_id,
                        raised |-> raised]
            /\ UNCHANGED <<next_guid, store_rest>>

\* JsonDatabaseManager.delete_installer: versions.remove(installer) takes
\* out the first record equal to the argument
DeleteInstaller ==
    \E package_id \in PackageIds : \E installer \in InstallerArguments(package_id) :
        LET pkg_index == get_package(db, package_id)
            versions == IF pkg_index.exists THEN pkg_index.versions ELSE <<>>
            raised == ~pkg_index.exists \/ installer.storage_path = <<>>
            equal == { i \in DOMAIN versions : versions[i] = installer }
            first == CHOOSE i \in equal : \A k \in equal : i <= k
        IN  /\ db' = IF ~raised /\ equal # {}
                     THEN [db EXCEPT ![package_id].versions =
                              [i \in 1..(Len(versions) - 1) |->
                                  IF i < first THEN versions[i] ELSE versions[i + 1]]]
                     ELSE db
            /\ call' = [op |-> "delete_installer", package_id |-> package_id,
                        raised |-> raised]
            /\ UNCHANGED <<next_guid, store_rest>>

\* JsonDatabaseManager.delete_package
DeletePackage ==
    \E package_id \in PackageIds :
        /\ db' = IF get_package(db, package_id).exists
                 THEN [db EXCEPT ![package_id] = NoPackage]
                 ELSE db
        /\ call' = [op |-> "delete_package", package_id |-> package_id,
                    raised |-> ~get_package(db, package_id).exists]
        /\ UNCHANGED <<next_guid, store_rest>>

StoreNext ==
    \/ SavePackage
    \/ AddInstaller
    \/ UpdateInstaller
    \/ DeleteInstaller
    \/ DeletePackage

StoreSpec == MatchInit /\ [][StoreNext]_vars

\* ------------------------------------------------------------------------
\* Version strings
\* ------------------------------------------------------------------------

\* longest generated version string
MaxVersionLen == 2

\* v_str.replace("-", ".").split(".")
RECURSIVE SplitVersion(_)
SplitVersion(v) ==
    LET seps == { i \in DOMAIN v : v[i] \in {".", "-"} }
    IN  IF seps = {} THEN <<v>>
        ELSE LET i == CHOOSE j \in seps : \A k \in seps : j <= k
             IN  <<SubSeq(v, 1, i - 1)>> \o SplitVersion(SubSeq(v, i + 1, Len(v)))

\* int(part) on a string of decimal digits
RECURSIVE IntOf(_)
IntOf(part) ==
    IF part = <<>> THEN 0
    ELSE 10 * IntOf(SubSeq(part, 1, Len(part) - 1)) + (CharOrd(part[Len(part)]) - 48)

\* the alternative to SegmentKey in which every segment is kept as a string
SegmentAsString(part) == <<1, part>>

\* try: (0, int(part)) except ValueError: (1, part)
SegmentKey(part) ==
    IF part # <<>> /\ \A i \in DOMAIN part : part[i] \in {"0", "1", "2", "9"}
    THEN <<0, IntOf(part)>>
    ELSE <<1, part>>

\* _version_key on a version string
string_version_key(v) ==
    [i \in DOMAIN SplitVersion(v) |-> SegmentKey(SplitVersion(v)[i])]

\* the version strings that are compared
VersionStrings ==
    TextsUpTo({"1", "0", ".", "-", "a"}, MaxVersionLen)
    \cup { <<"1", ".", "9", ".", "0">>, <<"1", ".", "1", "0", ".", "0">>,
           <<"1", ".", "0", "-", "a">>, <<"1", ".", "0", ".", "1">>, <<"0", "1", ".", "0">> }

\* versions.sort(key=_version_key): the comparisons the sort makes
CompareVersions ==
    \E a \in VersionStrings, b \in VersionStrings :
        /\ call = NoCall
        /\ call' = [op |-> "version_key", a |-> a, b |-> b,
                    key_a |-> string_version_key(a),
                    key_b |-> string_version_key(b),
                    less |-> KeyLess(string_version_key(a), string_version_key(b)),
                    greater |-> KeyLess(string_version_key(b), string_version_key(a))]
        /\ UNCHANGED <<import_vars, runs, index>>

\* most candidates handed to _select_latest_version_data at once
MaxCandidates == 3

\* the installer candidates that are grouped
Candidates ==
    { [version |-> v, architecture |-> a, scope |-> "user", installer_type |-> "exe",
       url |-> "u1", sha256 |-> <<>>] :
        v \in { <<1, 0>>, <<2, 0>>, <<1, 5>> }, a \in {"x64", "x86"} }
    \cup
    { [version |-> v, architecture |-> "x64", scope |-> "user", installer_type |-> "msi",
       url |-> "u1", sha256 |-> <<>>] :
        v \in { <<1, 0>>, <<2, 0>> } }

\* _select_latest_version_data(version_data, ..., installer_types)
SelectLatest ==
    \E n \in 0..MaxCandidates :
        \E version_data \in [1..n -> Candidates], installer_types \in { <<>>, <<"exe">> } :
            /\ call = NoCall
            /\ call' = [op |-> "select_latest", version_data |-> version_data,
                        installer_types |-> installer_types,
                        selected |-> select_latest_version_data(version_data,
                                                                installer_types)]
            /\ UNCHANGED <<import_vars, runs, index>>

\* version_entry.get(key) or manifest.get(key) for the fields a version
\* entry of a multi-version manifest inherits from the document
EffectiveEntry(version_entry, manifest) ==
    [Scope |-> Or2(version_entry.Scope, manifest.Scope),
     InstallerType |-> Or2(version_entry.InstallerType, manifest.InstallerType)]

\* _extract_installer_info on a manifest with one entry in Versions that
\* lists one installer
ExtractInstallerInfo ==
    \E installer \in [Architecture : {"X64", "x86"}, Scope : {"", "Machine", "user"},
                      InstallerType : {"", "EXE"}, InstallerUrl : {"", "u1"},
                      InstallerSha256 : { <<>> }],
       version_entry \in [Scope : {"", "user"}, InstallerType : {"", "msi"}],
       manifest \in [Scope : {"", "Machine"}, InstallerType : {"", "exe"}],
       architecture \in { <<>>, <<"x64">> },
       scope \in { <<>>, <<"Machine">>, <<"user">> },
       installer_types \in { <<>>, <<"EXE">>, <<"msi">> } :
        /\ call = NoCall
        /\ call' = [op |-> "extract_installer_info", installer |-> installer,
                    version_entry |-> version_entry, manifest |-> manifest,
                    architecture |-> architecture, scope |-> scope,
                    installer_types |-> installer_types,
                    installers |->
                       extract_installer_info([version |-> <<1, 0>>],
                                              EffectiveEntry(version_entry, manifest),
                                              <<installer>>,
                                              architecture, scope, installer_types)]
        /\ UNCHANGED <<import_vars, runs, index>>

\* largest uncompressed size a header declares
MaxDeclaredSize == 3

\* most complete chunks of a compressed input
MaxChunks == 2

\* a complete chunk of the input: its 4-byte length, the 2 bytes after it
\* (the marker CK or something else) and its payload, which inflates to
\* `out` or makes zlib fail
Chunks ==
    [marker : {"CK"}, inflates : {TRUE}, out : { <<>>, <<"x">>, <<"x", "y">> }]
    \cup { [marker |-> "XX", inflates |-> TRUE, out |-> <<"x">>],
           [marker |-> "CK", inflates |-> FALSE, out |-> <<>>] }

\* the inputs of _decompress_mszip: a header that is long enough or not,
\* with or without the magic bytes, the declared size, the complete chunks,
\* what is left after them (nothing, fewer than 4 bytes, a length without
\* the 2 marker bytes, a chunk cut short in its payload), and the bytes
\* flush() still yields
CompressedInputs ==
    [header_complete : BOOLEAN,
     magic_ok : BOOLEAN,
     uncompressed_size : 0..MaxDeclaredSize,
     chunks : UNION { [1..n -> Chunks] : n \in 0..MaxChunks },
     tail : {"none", "short_length", "no_marker", "cut_payload"},
     flushed : { <<>>, <<"z">> }]

\* the alternative to MarkerRejected in which the marker is not looked at
MarkerNeverTested(chunk) == FALSE

\* ck_signature != b'CK'
MarkerRejected(chunk) == chunk.marker # "CK"

\* the alternative to Trim that returns everything produced
NoTrim(result, uncompressed_size) == result

\* result[:uncompressed_size] when the result is longer
Trim(result, uncompressed_size) ==
    IF Len(result) > uncompressed_size THEN SubSeq(result, 1, uncompressed_size)
    ELSE result

\* the while loop of _decompress_mszip from chunk i on: the bytes produced,
\* whether it raised, and the number of bytes that had been produced before
\* each chunk it began to read
RECURSIVE read_chunks(_, _, _, _)
read_chunks(data, i, decompressed_data, began) ==
    LET stop == [raised |-> FALSE, decompressed_data |-> decompressed_data, began |-> began]
        fail(b) == [raised |-> TRUE, decompressed_data |-> decompressed_data, began |-> b]
        here == Append(began, Len(decompressed_data))
    IN  IF ~(Len(decompressed_data) < data.uncompressed_size) THEN stop
        ELSE IF i <= Len(data.chunks)
        THEN IF MarkerRejected(data.chunks[i]) THEN fail(here)
             ELSE IF ~data.chunks[i].inflates THEN fail(here)
             ELSE read_chunks(data, i + 1, decompressed_data \o data.chunks[i].out, here)
        ELSE CASE data.tail = "none" -> stop
               [] data.tail = "short_length" -> stop
               [] OTHER -> fail(here)

\* _decompress_mszip
decompress_mszip(data) ==
    IF ~data.header_complete \/ ~data.magic_ok
    THEN [raised |-> TRUE, result |-> <<>>, began |-> <<>>]
    ELSE LET loop == read_chunks(data, 1, <<>>, <<>>)
         IN  IF loop.raised
             THEN [raised |-> TRUE, result |-> <<>>, began |-> loop.began]
             ELSE [raised |-> FALSE,
                   result |-> Trim(loop.decompressed_data \o data.flushed,
                                   data.uncompressed_size),
                   began |-> loop.began]

\* self._decompress_mszip(compressed_data)
Decompress ==
    \E data \in CompressedInputs :
        /\ call = NoCall
        /\ call' = [op |-> "decompress_mszip", data |-> data,
                    returned |-> decompress_mszip(data)]
        /\ UNCHANGED <<import_vars, runs, index>>

FunctionNext ==
    \/ CompareVersions
    \/ SelectLatest
    \/ ExtractInstallerInfo
    \/ Decompress

FunctionSpec == MatchInit /\ [][FunctionNext]_vars

\* ------------------------------------------------------------------------
\* The daily update job: run_periodic_updates and update_cached_packages
\* ------------------------------------------------------------------------

\* most passes of the loop that are followed
MaxPasses == 2

\* most packages get_all_packages returns to a pass
MaxJobPackages == 2

\* a package of the repository index as the job reads it, with what the
\* upstream catalog answers for it: None when find_package_by_id finds
\* nothing, else the latest_version of the catalog
IndexedPackage(package_id, cached, auto_update, versions, upstream) ==
    [package_id |-> package_id, cached |-> cached, auto_update |-> auto_update,
     versions |-> versions, upstream |-> upstream]

\* the packages a pass can find; the versions are in directory order
AllPackages ==
    { IndexedPackage("p", TRUE, TRUE,
                     << <<"1", ".", "9", ".", "0">>, <<"1", ".", "1", "0", ".", "0">> >>,
                     Some(<<"1", ".", "1", "0", ".", "0">>)),
      IndexedPackage("p", TRUE, TRUE, << <<"1", ".", "9", ".", "0">> >>,
                     Some(<<"1", ".", "1", "0", ".", "0">>)),
      IndexedPackage("p", TRUE, FALSE, << <<"1", ".", "9", ".", "0">> >>,
                     Some(<<"1", ".", "1", "0", ".", "0">>)),
      IndexedPackage("p", TRUE, TRUE, << <<"1", ".", "9", ".", "0">> >>, None),
      IndexedPackage("q", FALSE, FALSE, << <<"1", ".", "0", ".", "1">> >>,
                     Some(<<"1", ".", "1", "0", ".", "0">>)),
      IndexedPackage("q", TRUE, TRUE, <<>>, Some(<<"1", ".", "0", ".", "1">>)) }

\* self.db.get_all_packages(): one entry per package directory
PackageLists ==
    { lst \in UNION { [1..n -> AllPackages] : n \in 0..MaxJobPackages } :
        \A i \in DOMAIN lst, j \in DOMAIN lst :
            i # j => lst[i].package_id # lst[j].package_id }

\* the first version of the directory listing, unsorted
first_listed(local_versions) ==
    IF local_versions = <<>> THEN None ELSE Some(local_versions[1])

\* local_versions.sort(key=version_key, reverse=True);
\* local_latest = local_versions[0] if local_versions else None
local_latest(local_versions) ==
    IF local_versions = <<>> THEN None
    ELSE Some(local_versions[
            CHOOSE i \in DOMAIN local_versions :
                /\ \A j \in DOMAIN local_versions :
                      ~KeyLess(string_version_key(local_versions[i]),
                               string_version_key(local_versions[j]))
                /\ \A j \in 1..(i - 1) :
                      KeyLess(string_version_key(local_versions[j]),
                              string_version_key(local_versions[i]))])

\* local_latest of every package a pass can find
LocalLatestOf == [pkg \in AllPackages |-> local_latest(pkg.versions)]

\* the body of the loop for one package up to the import: lookup is
\* "raises" when find_package_by_id raises
UpdateDecision(pkg, lookup) ==
    IF ~pkg.cached \/ ~pkg.auto_update THEN "skipped"
    ELSE IF lookup = "raises" THEN "failed"
    ELSE IF pkg.upstream = None THEN "not_upstream"
    ELSE IF LocalLatestOf[pkg] = pkg.upstream THEN "up_to_date"
    ELSE "import"

\* a loop that a failed check breaks out of
StopAfterFailure(todo, decision) ==
    IF decision = "failed" THEN <<>> ELSE Tail(todo)

\* the packages the for loop still visits after one package was decided:
\* continue, and except Exception inside the loop body
RemainingAfter(todo, decision) == Tail(todo)

InJob == call.op = "update_cached_packages"

\* await asyncio.sleep(wait_seconds) returns and the pass begins; packages
\* is what the data directory holds during the pass
WakeUp ==
    /\ \/ call = NoCall
       \/ InJob /\ call.pc = "sleeping" /\ call.passes < MaxPasses
    /\ \E packages \in PackageLists, index_db \in BOOLEAN :
          call' = [op |-> "update_cached_packages", pc |-> "index",
                   index_db |-> IF call = NoCall THEN index_db ELSE call.index_db,
                   packages |-> packages, todo |-> <<>>, considered |-> <<>>,
                   aborted |-> FALSE,
                   passes |-> IF call = NoCall THEN 0 ELSE call.passes]
    /\ UNCHANGED <<import_vars, runs, index>>

\* the two branches of "Ensure index exists": without an index a failed
\* update_index ends the pass, with one the pass goes on with what is there
RefreshIndex ==
    /\ InJob /\ call.pc = "index"
    /\ \E updated \in BOOLEAN :
          call' = IF updated
                  THEN [call EXCEPT !.index_db = TRUE, !.pc = "packages",
                                    !.todo = call.packages]
                  ELSE IF call.index_db
                  THEN [call EXCEPT !.pc = "packages", !.todo = call.packages]
                  ELSE [call EXCEPT !.pc = "sleeping", !.aborted = TRUE,
                                    !.passes = @ + 1]
    /\ UNCHANGED <<import_vars, runs, index>>

\* one turn of for pkg_index in all_packages
CheckPackage ==
    /\ InJob /\ call.pc = "packages" /\ call.todo # <<>>
    /\ \E lookup \in {"found", "raises"} :
          LET pkg == Head(call.todo)
              decision == UpdateDecision(pkg, lookup)
          IN  /\ call' = [call EXCEPT
                     !.considered = Append(@, [package_id |-> pkg.package_id,
                                               decision |-> decision]),
                     !.todo = RemainingAfter(call.todo, decision),
                     !.pc = IF decision = "import" THEN "importing" ELSE "packages"]
              /\ runs' = IF decision = "import"
                         THEN [runs EXCEPT !["daily"] =
                                  [pc |-> "loading", package_id |-> pkg.package_id,
                                   todo |-> 0, added |-> 0]]
                         ELSE runs
    /\ UNCHANGED <<import_vars, index>>

\* await self.import_package(...) returned or raised into except Exception
ImportEnded ==
    /\ InJob /\ call.pc = "importing"
    /\ runs["daily"].pc = "idle"
    /\ call' = [call EXCEPT !.pc = "packages"]
    /\ UNCHANGED <<import_vars, runs, index>>

\* the loop is exhausted, update_cached_packages returns and
\* run_periodic_updates sleeps until the next update time
EndPass ==
    /\ InJob /\ call.pc = "packages" /\ call.todo = <<>>
    /\ call' = [call EXCEPT !.pc = "sleeping", !.passes = @ + 1]
    /\ UNCHANGED <<import_vars, runs, index>>

JobNext ==
    \/ WakeUp
    \/ RefreshIndex
    \/ CheckPackage
    \/ ImportEnded
    \/ EndPass
    \/ RunRaises("daily")
    \/ RunSavesPackage("daily")
    \/ RunAddsInstaller("daily")
    \/ RunReturns("daily")

JobSpec == MatchInit /\ [][JobNext]_vars

\* every await of the pass returns or raises (the downloads have timeouts)
\* and the event loop keeps scheduling the task
FairJobSpec == JobSpec /\ WF_vars(JobNext)

\* ------------------------------------------------------------------------
\* Properties of readers and writers
\* ------------------------------------------------------------------------

\* C11 as stated: what a request read of the package while an import run
\* was under way is the package as it was before the run or the package as
\* the completed run left it, never a state in between (the PackageRecord of
\* the run with none or only some of the run's InstallerRecords).
C11_ReadsSeeAtomicSnapshot ==
    (pc = "done" /\ outcome = "ok" /\ observed.taken)
    => \/ observed.package = db0[args.package_id]
       \/ observed.package = db[args.package_id]

\* a run is between its first and its last persist step
InPersistSection(r) == runs[r].pc = "persisting" /\ runs[r].todo > 0

\* C12 as stated: no two import runs for the same package id are between
\* their first and their last persist step at the same time.
C12_SingleWriterPerPackage ==
    \A r1, r2 \in Starters :
        (r1 # r2 /\ InPersistSection(r1) /\ InPersistSection(r2))
        => runs[r1].package_id # runs[r2].package_id

\* the wildcard mode of the table: the whole value matches the keyword, where
\* * stands for any sequence and ? for one character, letters compared
\* without case
RECURSIVE FullGlobMatch(_, _)
FullGlobMatch(keyword, value) ==
    IF keyword = <<>> THEN value = <<>>
    ELSE CASE Head(keyword) = "*" ->
                \/ FullGlobMatch(Tail(keyword), value)
                \/ value # <<>> /\ FullGlobMatch(keyword, Tail(value))
           [] Head(keyword) = "?" ->
                value # <<>> /\ FullGlobMatch(Tail(keyword), Tail(value))
           [] OTHER ->
                /\ value # <<>>
                /\ LowerChar(Head(value)) = LowerChar(Head(keyword))
                /\ FullGlobMatch(Tail(keyword), Tail(value))

\* the table of match modes
MatchTable(value, kw, match) ==
    CASE match = "Exact" -> value = kw
      [] match = "CaseInsensitive" -> Lower(value) = Lower(kw)
      [] match = "StartsWith" -> StartsWith(Lower(value), Lower(kw))
      [] match = "Wildcard" -> FullGlobMatch(kw, value)
      [] OTHER -> Contains(Lower(value), Lower(kw))

\* C18 as stated: for every value and every non-null keyword the match
\* engine answers as the table of modes says; under Wildcard that is a
\* case-insensitive match of the whole value, * any sequence, ? one character.
C18_MatchesFollowsTheTable ==
    (call.op = "match_text" /\ call.keyword # None)
    => call.result = MatchTable(call.value, ValueOf(call.keyword),
                                NormalisedMatchType(call.match_type))

\* the package of the index with this identifier
PackageWithId(id) == CHOOSE pkg \in Packages(index) : pkg.id = id

HasNonEmptyVersion(pkg) == \E i \in DOMAIN pkg.versions : pkg.versions[i].version # <<>>

ReturnedIds == { d.PackageIdentifier : d \in call.Data }

UncappedIds == { d.PackageIdentifier : d \in call.results }

IsCapped(body) == body.MaximumResults # None /\ ValueOf(body.MaximumResults) > 0

\* a criterion matches a package when the match engine matches the
\* criterion's keyword against one of the values of the targeted field
CriterionMatches(pkg, criterion) ==
    \E v \in values_for_field(criterion.PackageMatchField, pkg) :
        match_text(v, criterion.KeyWord, criterion.MatchType)

C14_ResultIsTheFilteredCandidates ==
    call.op = "manifestSearch"
    => /\ \A id \in UncappedIds :
             \A i \in DOMAIN call.body.Filters :
                 CriterionMatches(PackageWithId(id), call.body.Filters[i])
       /\ \A id \in call.candidates :
             ((\A i \in DOMAIN call.body.Filters :
                   CriterionMatches(PackageWithId(id), call.body.Filters[i]))
              /\ HasNonEmptyVersion(PackageWithId(id)))
             => id \in UncappedIds

\* C15: the search answers 204 exactly when no candidate that passes the
\* Filters has a non-empty version, and 200 with a non-empty result otherwise.
C15_NoContentIffEmpty ==
    call.op = "manifestSearch"
    => /\ call.status \in {200, 204}
       /\ call.status = 204
            <=> ~\E pkg \in filtered_ids(index, call.body) : HasNonEmptyVersion(pkg)
       /\ call.status = 200 => call.Data # {}
       /\ call.status = 204 => call.Data = {}

C15_Witness ==
    /\ call.op = "manifestSearch"
    /\ call.status = 204
    /\ call.candidates # {}
    /\ call.body.Filters # <<>>
    /\ \E id \in call.candidates : HasNonEmptyVersion(PackageWithId(id))

\* C16 as stated: with fetchAll false and a Query keyword or an Inclusion
\* supplied, the candidates are exactly the packages the Query matches
\* together with the packages an Inclusion matches on its field.
C16_CandidatesAreTheUnion ==
    (/\ call.op = "manifestSearch"
     /\ ~call.body.FetchAllManifests
     /\ (HasQueryKeyWord(call.body.Query) \/ call.body.Inclusions # <<>>))
    => call.candidates =
         { pkg.id : pkg \in
             { q \in Packages(index) :
                 \/ package_matches_query(q, call.body.Query)
                 \/ \E i \in DOMAIN call.body.Inclusions :
                       CriterionMatches(q, call.body.Inclusions[i]) } }

C19_CriterionWithoutKeywordSelectsNothing ==
    (/\ call.op = "manifestSearch"
     /\ ~call.body.FetchAllManifests
     /\ ~HasQueryKeyWord(call.body.Query)
     /\ Len(call.body.Inclusions) = 1
     /\ call.body.Inclusions[1].KeyWord = None)
    => call.candidates = {}

\* C20 as stated: every version entry of the manifest document has a
\* non-empty Installers list and every listed installer carries a SHA-256.
C20_NoVersionWithoutInstallers ==
    (call.op = "packageManifests" /\ call.status = 200)
    => \A i \in DOMAIN call.Versions :
          /\ call.Versions[i].Installers # <<>>
          /\ \A j \in DOMAIN call.Versions[i].Installers :
                call.Versions[i].Installers[j].InstallerSha256 # <<>>

\* the number of separators in a version string
Separators(v) == Cardinality({ i \in DOMAIN v : v[i] \in {".", "-"} })

\* the first position at which two keys differ, 0 when one is a prefix of
\* the other
FirstDifference(ka, kb) ==
    LET d == { i \in DOMAIN ka \cap DOMAIN kb : ka[i] # kb[i] }
    IN  IF d = {} THEN 0 ELSE CHOOSE i \in d : \A j \in d : i <= j

\* C25: a version key has one (0, integer) or (1, string) pair per segment
\* between separators; two keys are ordered by their first differing
\* position, integers by value and a numeric segment before a non-numeric
\* one; any two keys are less, equal or greater, and "1.9.0" < "1.10.0".
C25_VersionKeyOrder ==
    call.op = "version_key"
    => LET ka == call.key_a
           kb == call.key_b
           d == FirstDifference(ka, kb)
       IN  /\ Len(ka) = Separators(call.a) + 1
           /\ \A i \in DOMAIN ka : ka[i][1] \in {0, 1}
           /\ (call.less /\ ka # kb /\ ~call.greater)
                \/ (~call.less /\ ka = kb /\ ~call.greater)
                \/ (~call.less /\ ka # kb /\ call.greater)
           /\ d = 0 => (call.less <=> Len(ka) < Len(kb))
           /\ (d # 0 /\ ka[d][1] = 0 /\ kb[d][1] = 1) => call.less
           /\ (d # 0 /\ ka[d][1] = 0 /\ kb[d][1] = 0) => (call.less <=> ka[d][2] < kb[d][2])
           /\ (call.a = <<"1", ".", "9", ".", "0">>
                 /\ call.b = <<"1", ".", "1", "0", ".", "0">>) => call.less

C25_Witness ==
    /\ call.op = "version_key"
    /\ call.a = <<"1", ".", "9", ".", "0">>
    /\ call.b = <<"1", ".", "1", "0", ".", "0">>
    /\ call.key_a = << <<0, 1>>, <<0, 9>>, <<0, 0>> >>
    /\ call.key_b = << <<0, 1>>, <<0, 10>>, <<0, 0>> >>
    /\ call.less

\* the stored installer records of a version that have a resolvable SHA-256,
\* in stored order
ServableRecords(pkg, version_str) ==
    SelectSeq(pkg.versions,
              LAMBDA v : v.version = version_str /\ resolved_sha256(v) # <<>>)

ManifestAnswered == call.op = "packageManifests" /\ call.status = 200

C22_NestedInstallers ==
    ManifestAnswered
    => \A i \in DOMAIN call.Versions :
          LET stored == ServableRecords(PackageWithId(call.package_id),
                                        call.Versions[i].PackageVersion)
              emitted == call.Versions[i].Installers
          IN  \A j \in DOMAIN emitted :
                 LET files == emitted[j].NestedInstallerFiles
                     kept == stored[j].nested_installer_files
                 IN  CASE stored[j].installer_type = "custom" ->
                            /\ emitted[j].InstallerType = "zip"
                            /\ Len(files) = 1
                            /\ files[1].RelativeFilePath = "install.bat"
                       [] stored[j].installer_type = "zip" ->
                            /\ emitted[j].InstallerType = "zip"
                            /\ Len(files) = Len(kept)
                            /\ \A k \in DOMAIN files :
                                  /\ files[k].RelativeFilePath = kept[k].relative_file_path
                                  /\ files[k].PortableCommandAlias
                                       = kept[k].portable_command_alias
                       [] OTHER ->
                            /\ emitted[j].InstallerType = stored[j].installer_type
                            /\ files = <<>>

C22_Witness ==
    /\ ManifestAnswered
    /\ \E i \in DOMAIN call.Versions :
          /\ call.Versions[i].Installers # <<>>
          /\ ServableRecords(PackageWithId(call.package_id),
                             call.Versions[i].PackageVersion) # <<>>
          /\ ServableRecords(PackageWithId(call.package_id),
                             call.Versions[i].PackageVersion)[1].installer_type = "custom"
          /\ call.Versions[i].Installers[1].InstallerType = "zip"
          /\ Len(call.Versions[i].Installers[1].NestedInstallerFiles) = 1

\* no dictionary of the value, at any depth, has a null field
RECURSIVE NoNullField(_)
NoNullField(value) ==
    IF value.t = "dict"
    THEN \A k \in DOMAIN value.v : value.v[k].t # "null" /\ NoNullField(value.v[k])
    ELSE IF value.t = "list"
    THEN \A i \in DOMAIN value.v : NoNullField(value.v[i])
    ELSE TRUE

\* after is before with the null fields of its dictionaries removed and
\* nothing else changed
RECURSIVE OnlyNullsRemoved(_, _)
OnlyNullsRemoved(before, after) ==
    IF before.t = "dict"
    THEN /\ after.t = "dict"
         /\ DOMAIN after.v = { k \in DOMAIN before.v : before.v[k].t # "null" }
         /\ \A k \in DOMAIN after.v : OnlyNullsRemoved(before.v[k], after.v[k])
    ELSE IF before.t = "list"
    THEN /\ after.t = "list"
         /\ Len(after.v) = Len(before.v)
         /\ \A i \in DOMAIN after.v : OnlyNullsRemoved(before.v[i], after.v[i])
    ELSE after = before

\* C23: the returned manifest document has no null field at any depth, and
\* differs from the assembled one only by the removed null fields.
C23_NoNullFields ==
    ManifestAnswered
    => /\ NoNullField(call.Data)
       /\ OnlyNullsRemoved(call.data, call.Data)

C23_Witness ==
    /\ ManifestAnswered
    /\ Len(call.Versions) = 2
    /\ \E i \in DOMAIN call.Versions :
          /\ call.Versions[i].Installers # <<>>
          /\ Len(call.Versions[i].Installers[1].NestedInstallerFiles) = 2
          /\ call.Versions[i].Installers[1].NestedInstallerFiles[2].PortableCommandAlias = ""
    /\ ~NoNullField(call.data)

\* C24 as stated: 404 exactly for a package id that is not in the index; a
\* known package without a servable installer gets a document that has no
\* versions.
C24_NotFoundOnlyForUnknownIds ==
    call.op = "packageManifests"
    => /\ call.status \in {200, 404}
       /\ call.status = 404 <=> ~\E pkg \in Packages(index) : pkg.id = call.package_id
       /\ (call.status = 200
             /\ \A i \in DOMAIN PackageWithId(call.package_id).versions :
                   resolved_sha256(PackageWithId(call.package_id).versions[i]) = <<>>)
          => call.Versions = <<>>

\* the candidates of a call that pass its installer-type filter
PassingTypeFilter ==
    { vd \in SeqToSet(call.version_data) :
        call.installer_types = <<>> \/ vd.installer_type \in SeqToSet(call.installer_types) }

\* C26: the selection holds exactly one candidate for each (architecture,
\* scope, installer type) group of the candidates that pass the type filter,
\* and no candidate of the group has a greater version key.
C26_OneLatestPerGroup ==
    call.op = "select_latest"
    => LET selected == call.selected
       IN  /\ \A i, j \in DOMAIN selected :
                 i # j => GroupKey(selected[i]) # GroupKey(selected[j])
           /\ { GroupKey(selected[i]) : i \in DOMAIN selected }
                = { GroupKey(vd) : vd \in PassingTypeFilter }
           /\ \A i \in DOMAIN selected :
                 /\ selected[i] \in PassingTypeFilter
                 /\ \A vd \in PassingTypeFilter :
                       GroupKey(vd) = GroupKey(selected[i])
                       => ~KeyLess(version_key(selected[i].version), version_key(vd.version))

C26_Witness ==
    /\ call.op = "select_latest"
    /\ Len(call.version_data) = 3
    /\ call.version_data[1].version = <<1, 0>> /\ call.version_data[1].architecture = "x64"
    /\ call.version_data[2].version = <<2, 0>> /\ call.version_data[2].architecture = "x64"
    /\ call.version_data[3].version = <<1, 5>> /\ call.version_data[3].architecture = "x86"
    /\ \A i \in 1..3 : call.version_data[i].installer_type = "exe"
    /\ SeqToSet(call.selected) = { call.version_data[2], call.version_data[3] }
    /\ Len(call.selected) = 2

\* the first non-empty string of a list, "" when there is none
RECURSIVE FirstNonEmpty(_)
FirstNonEmpty(strings) ==
    IF strings = <<>> THEN ""
    ELSE IF Head(strings) # "" THEN Head(strings)
    ELSE FirstNonEmpty(Tail(strings))

\* scope and installer type of the installer of a call: its own value, else
\* the version entry's, else the document's, the scope else user
EffectiveScope ==
    FirstNonEmpty(<<call.installer.Scope, call.version_entry.Scope,
                    call.manifest.Scope, "user">>)

EffectiveType ==
    FirstNonEmpty(<<call.installer.InstallerType, call.version_entry.InstallerType,
                    call.manifest.InstallerType>>)

\* C27: an installer is emitted exactly when its download URL is not empty
\* and every non-empty filter holds, without regard to case, the effective
\* value of the installer; the emitted entry carries the effective scope
\* and installer type.
C27_ExtractInstallers ==
    call.op = "extract_installer_info"
    => /\ call.installers # <<>>
            <=> /\ call.installer.InstallerUrl # ""
                /\ call.architecture # <<>>
                     => LowerStr(call.installer.Architecture) \in LowerList(call.architecture)
                /\ call.scope # <<>>
                     => LowerStr(EffectiveScope) \in LowerList(call.scope)
                /\ call.installer_types # <<>>
                     => LowerStr(EffectiveType) \in LowerList(call.installer_types)
       /\ Len(call.installers) <= 1
       /\ call.installers # <<>>
            => /\ call.installers[1].scope = EffectiveScope
               /\ call.installers[1].installer_type = EffectiveType
               /\ call.installers[1].url = call.installer.InstallerUrl

C27_Witness ==
    /\ call.op = "extract_installer_info"
    /\ call.installer.Scope = ""
    /\ call.version_entry.Scope = ""
    /\ call.manifest.Scope = "Machine"
    /\ call.installer.InstallerType = ""
    /\ call.version_entry.InstallerType = "msi"
    /\ call.scope = <<"Machine">>
    /\ call.installer_types = <<"msi">>
    /\ call.architecture = <<"x64">>
    /\ call.installers # <<>>
    /\ call.installers[1].scope = "Machine"

\* C28: decompression raises, and returns no bytes, when the header is too
\* short or lacks the magic bytes - before any chunk is read - and when a
\* chunk that is read lacks the marker after its length.
C28_FormatErrors ==
    call.op = "decompress_mszip"
    => LET data == call.data
           ret == call.returned
       IN  /\ (~data.header_complete \/ ~data.magic_ok)
                => (ret.raised /\ ret.began = <<>>)
           /\ \A i \in DOMAIN ret.began :
                 (i <= Len(data.chunks) /\ data.chunks[i].marker # "CK") => ret.raised
           /\ (Len(ret.began) > Len(data.chunks) /\ data.tail = "no_marker") => ret.raised
           /\ ret.raised => ret.result = <<>>

C28_Witness ==
    /\ call.op = "decompress_mszip"
    /\ call.data.header_complete
    /\ call.data.magic_ok
    /\ Len(call.data.chunks) = 2
    /\ Len(call.returned.began) = 2
    /\ call.data.chunks[2].marker = "XX"
    /\ call.returned.raised

\* C29: a chunk is read only while fewer bytes than the declared size have
\* been produced and input remains; a result whose length differs from the
\* declared size is returned all the same, and no result is longer than
\* the declared size.
C29_StopsAtDeclaredSize ==
    call.op = "decompress_mszip"
    => LET data == call.data
           ret == call.returned
           input_left == Len(data.chunks) + (IF data.tail = "none" THEN 0 ELSE 1)
       IN  /\ \A i \in DOMAIN ret.began : ret.began[i] < data.uncompressed_size
           /\ Len(ret.began) <= input_left
           /\ Len(ret.result) <= data.uncompressed_size
           /\ (/\ data.header_complete
               /\ data.magic_ok
               /\ \A i \in DOMAIN data.chunks :
                     data.chunks[i].marker = "CK" /\ data.chunks[i].inflates
               /\ data.tail \in {"none", "short_length"})
              => ~ret.raised

C29_Witness ==
    /\ call.op = "decompress_mszip"
    /\ ~call.returned.raised
    /\ Len(call.returned.began) = 2
    /\ call.data.uncompressed_size = 3
    /\ Len(call.returned.result) = 2
    /\ call.data.tail = "short_length"

\* the step of a run that calls save_package
SavesPackage == pc = "check" /\ pc' = "import_loop"

\* every entry of the index is kept under its own identifier
StoredUnderOwnIdentifier ==
    \A id \in PackageIds :
        db[id].exists => db[id].package.package_identifier = id

\* C30: in every reachable state each package entry of the repository index
\* is stored under the key equal to its own package identifier, and a save
\* of a package that is already in the index changes neither its identifier
\* nor its storage path nor its list of installer records
C30_IdentifierImmutable ==
    /\ []StoredUnderOwnIdentifier
    /\ [][(SavesPackage /\ db[args.package_id].exists) =>
            /\ db'[args.package_id].exists
            /\ db'[args.package_id].package.package_identifier
                    = db[args.package_id].package.package_identifier
            /\ db'[args.package_id].storage_path = db[args.package_id].storage_path
            /\ db'[args.package_id].versions = db[args.package_id].versions
            /\ \A id \in PackageIds \ {args.package_id} : db'[id] = db[id]]_vars

\* a run has saved new metadata over a package that had an installer record
C30_Witness ==
    /\ pc = "import_loop"
    /\ idx = 1
    /\ db0[args.package_id].exists
    /\ db0[args.package_id].versions # <<>>
    /\ db[args.package_id].package # db0[args.package_id].package
    /\ db[args.package_id].versions = db0[args.package_id].versions
    /\ db[args.package_id].storage_path = db0[args.package_id].storage_path

\* C31: after any sequence of add_installer, update_installer,
\* delete_installer and delete_package calls every installer record has a
\* non-empty installer id, the installer ids of one package are pairwise
\* distinct, and no two records of a package share a storage directory
C31_InstallerIdsDistinct ==
    \A id \in PackageIds :
        db[id].exists =>
            LET versions == db[id].versions
            IN  /\ \A i \in DOMAIN versions : versions[i].installer_guid # 0
                /\ \A i, j \in DOMAIN versions :
                       i # j => /\ versions[i].installer_guid # versions[j].installer_guid
                                /\ versions[i].storage_path # versions[j].storage_path

\* the entries of the decoded version index with no greater version key
GreatestEntries(doc) ==
    { e \in SeqToSet(doc) :
        \A o \in SeqToSet(doc) : ~KeyLess(version_key(e.version), version_key(o.version)) }

\* C32: with version mode latest a run requests the manifest of at most one
\* entry of the version index, an entry with the greatest version key of the
\* whole index; the version glob is applied after the truncation, so a run
\* whose greatest entry the glob rejects requests no manifest and ends with
\* NoMatchingVersions, whatever older entries the index lists
C32_LatestTruncatesBeforeGlob ==
    (args.version_mode = "latest" /\ calls.index_answer = "ok") =>
        /\ Len(manifest_gets) <= 1
        /\ \A i \in DOMAIN manifest_gets :
               manifest_gets[i] \in { e.version : e \in GreatestEntries(calls.index_doc) }
        /\ ( /\ args.version_filter.glob
             /\ calls.index_doc # <<>>
             /\ \A e \in GreatestEntries(calls.index_doc) :
                    ~fnmatch(e.version, args.version_filter) )
               => /\ manifest_gets = <<>>
                  /\ (pc = "done" /\ outcome # "Cancelled") => outcome = "NoMatchingVersions"

\* a latest run over an index whose older entry matches the glob has ended
\* with NoMatchingVersions because the glob rejects the greatest entry
C32_Witness ==
    /\ args.version_mode = "latest"
    /\ args.version_filter.glob
    /\ calls.index_answer = "ok"
    /\ Len(calls.index_doc) = 2
    /\ \E i \in DOMAIN calls.index_doc : fnmatch(calls.index_doc[i].version, args.version_filter)
    /\ \E i \in DOMAIN calls.index_doc : ~fnmatch(calls.index_doc[i].version, args.version_filter)
    /\ pc = "done"
    /\ manifest_gets = <<>>
    /\ outcome = "NoMatchingVersions"

\* the (architecture, scope, installer type) group of a candidate
GroupKeyOf(vd) == <<vd.architecture, vd.scope, vd.installer_type>>

\* C33: with version mode latest every (architecture, scope, installer type)
\* group among the candidates of the version loop has exactly one installer
\* in the download phase; the selection step's type filter discards no
\* candidate that the extraction step's type filter admitted
C33_EveryGroupIsSelected ==
    (args.version_mode = "latest" /\ pc \in {"import_loop", "after_download"}) =>
        \A i \in DOMAIN all_version_data :
            Cardinality({ k \in DOMAIN version_data_list :
                            GroupKeyOf(version_data_list[k]) = GroupKeyOf(all_version_data[i]) }) = 1

\* what _import_version_from_data compares of a stored record
StoredKeyOf(v) ==
    <<v.version, LowerStr(v.architecture), LowerStr(Or2(v.scope, "user")),
      LowerStr(Or2(v.installer_type, "exe"))>>

RequestsForThePackage ==
    { [MaximumResults |-> None, FetchAllManifests |-> fetch_all, Query |-> query,
       Inclusions |-> inclusions, Filters |-> <<>>] :
        fetch_all \in BOOLEAN,
        query \in { None, Some([KeyWord |-> Some(<<"p">>), MatchType |-> None]) },
        inclusions \in { <<>>,
                         << PackageMatchFilter("PackageIdentifier", Some(<<"p">>),
                                               Some("Exact")) >> } }

\* C35: a run that returns has saved the package record before its first
\* installer download, so the record is in the index after the run even
\* when nothing was imported; while the package has no installer record no
\* search returns it
C35_PackageSavedBeforeDownloads ==
    /\ attempts # <<>> => db[args.package_id].exists
    /\ (pc = "done" /\ outcome = "ok") =>
          /\ db[args.package_id].exists
          /\ db[args.package_id].package = BuildPackageMetadata(args)
    /\ (db[args.package_id].exists /\ db[args.package_id].versions = <<>>) =>
          \A body \in RequestsForThePackage :
              \A result \in search_results(RepositoryIndexOf(db), body) :
                  result.PackageIdentifier # <<args.package_id>>

\* a run over a package that was not in the index has returned with every
\* download failed; a search that selects every package finds the other one
C35_Witness ==
    /\ pc = "done"
    /\ outcome = "ok"
    /\ ~db0[args.package_id].exists
    /\ attempts # <<>>
    /\ imported_versions = <<>>
    /\ db[args.package_id].exists
    /\ db[args.package_id].versions = <<>>
    /\ \E body \in RequestsForThePackage :
          /\ body.FetchAllManifests
          /\ \E result \in search_results(RepositoryIndexOf(db), body) :
                 result.PackageIdentifier = <<"q">>

\* a single criterion without keyword, under Substring or no match type
OneCriterionWithoutKeyword(criteria) ==
    /\ Len(criteria) = 1
    /\ criteria[1].KeyWord = None
    /\ criteria[1].MatchType \in {None, Some("Substring")}

\* the packages of the index with at least one value in the field
PackagesWithValue(field) ==
    { pkg \in Packages(index) : values_for_field(field, pkg) # {} }

\* C36: an Inclusion or Filter criterion without keyword is evaluated with
\* the empty string as keyword: under Substring or an absent match type it
\* matches exactly the packages that have at least one value in the
\* targeted field
C36_AbsentKeywordMatchesAnyValue ==
    (call.op = "manifestSearch" /\ ~call.body.FetchAllManifests
        /\ ~HasQueryKeyWord(call.body.Query)) =>
        /\ OneCriterionWithoutKeyword(call.body.Inclusions) =>
              call.candidates =
                 { pkg.id : pkg \in PackagesWithValue(call.body.Inclusions[1].PackageMatchField) }
        /\ OneCriterionWithoutKeyword(call.body.Filters) =>
              { r.PackageIdentifier : r \in call.results } =
                 { pkg.id : pkg \in
                     { q \in PackagesWithValue(call.body.Filters[1].PackageMatchField) :
                         q.id \in call.candidates /\ version_strings(q) # <<>> } }

\* an Inclusion on Tag without keyword has selected the packages with a tag
\* and left out a package without one
C36_Witness ==
    /\ call.op = "manifestSearch"
    /\ ~call.body.FetchAllManifests
    /\ ~HasQueryKeyWord(call.body.Query)
    /\ OneCriterionWithoutKeyword(call.body.Inclusions)
    /\ call.body.Inclusions[1].PackageMatchField = "Tag"
    /\ call.candidates # {}
    /\ \E pkg \in Packages(index) : pkg.id \notin call.candidates

C38_FailureKeepsTheIndex ==
    (call.op = "update_index" /\ call.pc = "raised"
        /\ call.index_db_before = "previous")
    => call.index_db = "previous"

\* the package ids of a list of packages or of decisions, in order
IdsOf(lst) == [i \in DOMAIN lst |-> lst[i].package_id]

PassOver == InJob /\ call.pc = "sleeping"

InPass == InJob /\ call.pc # "sleeping"

\* C39 as stated: when a pass of the daily update job is over, every package
\* of the repository was considered exactly once, in sequence, whatever failed
\* for one of them; a pass that began always ends and the loop goes on to the
\* next pass.
C39_EveryPackageConsideredOnce ==
    /\ [](PassOver => IdsOf(call.considered) = IdsOf(call.packages))
    /\ (InPass ~> PassOver)
    /\ ((PassOver /\ call.passes < MaxPasses) ~> InPass)

\* C39 with its precondition: a pass that has an index database (the refreshed
\* one or the one already there) considers every package exactly once, in
\* sequence: during the loop the packages considered so far followed by the
\* ones still to visit are the packages of the repository, a failed check or
\* import included, and at the end all were considered; a pass without any
\* index database ends before the loop; every pass that began ends and the
\* loop goes on to the next pass.
C39_EveryPackageConsideredOnceWithIndex ==
    /\ []((PassOver /\ ~call.aborted)
            => IdsOf(call.considered) = IdsOf(call.packages))
    /\ []((InJob /\ call.pc \in {"packages", "importing"})
            => IdsOf(call.considered) \o IdsOf(call.todo) = IdsOf(call.packages))
    /\ []((PassOver /\ call.aborted) => (~call.index_db /\ call.considered = <<>>))
    /\ (InPass ~> PassOver)
    /\ ((PassOver /\ call.passes < MaxPasses) ~> InPass)

\* a pass is over in which the check of the first package failed and the
\* second package was imported
C39_Witness ==
    /\ PassOver /\ ~call.aborted
    /\ Len(call.considered) = 2
    /\ call.considered[1].decision = "failed"
    /\ call.considered[2].decision = "import"

\* the stored versions no other stored version is greater than, by versionKey
GreatestStored(versions) ==
    { versions[i] : i \in
        { k \in DOMAIN versions :
            \A j \in DOMAIN versions :
                ~KeyLess(string_version_key(versions[k]),
                         string_version_key(versions[j])) } }

\* C40: the daily update job starts an import run for a package only if the
\* package is cached with auto-update enabled and the latest version of the
\* upstream catalog differs from the greatest locally stored version; a
\* package with auto-update disabled, or whose greatest local version is the
\* upstream latest, is not imported; an import run of the job is under way
\* only for the package the job decided last to import.
C40_ImportsOnlyOutdatedAutoUpdate ==
    InJob =>
        /\ \A i \in DOMAIN call.considered :
              LET pkg == call.packages[i]
                  imported == call.considered[i].decision = "import"
              IN  /\ imported =>
                        /\ pkg.cached /\ pkg.auto_update
                        /\ pkg.upstream # None
                        /\ ValueOf(pkg.upstream) \notin GreatestStored(pkg.versions)
                  /\ (~pkg.auto_update
                      \/ (pkg.upstream # None
                          /\ GreatestStored(pkg.versions) = {ValueOf(pkg.upstream)}))
                        => ~imported
        /\ runs["daily"].pc # "idle" =>
              /\ call.pc = "importing"
              /\ call.considered # <<>>
              /\ call.considered[Len(call.considered)] =
                    [package_id |-> runs["daily"].package_id, decision |-> "import"]

\* the job found the first package up to date, whose greatest version is not
\* the first listed, and started the import of the second one
C40_Witness ==
    /\ InJob
    /\ Len(call.considered) = 2
    /\ call.considered[1].decision = "up_to_date"
    /\ Len(call.packages[1].versions) = 2
    /\ call.considered[2].decision = "import"
    /\ runs["daily"].pc = "loading"

====
